---------------------------- MODULE Spec2Model ----------------------------
(***************************************************************************)
(* A model of the mask designer: the App component (base config,          *)
(* animations, derived render config, scan / AR modes), the MaskInstances *)
(* component (instance generation, the AR bind and update phases) and the *)
(* FaceScanner session (detector, camera, prediction loop).               *)
(*                                                                         *)
(* Numbers.  The source computes in floating point; the model computes in *)
(* integers.  Positions are in units of 0.05 scene units, normals are the *)
(* displacement of one offset tick (0.25 scene units) along the unit      *)
(* normal, parametric coordinates (u, v) are exact fractions uN/den and   *)
(* vN/den.  getFacePoint (trigonometric) is tabulated at the candidate    *)
(* coordinates the distribution laws visit; the golden-angle cosines and  *)
(* sines are tabulated in thousandths, the sine hash in 200ths.           *)
(*                                                                         *)
(* Specifications.  Spec is the App with its AR binding, SessionSpec the  *)
(* FaceScanner session, PoseSpec the smoothed head pose.  PlacementSpec   *)
(* runs the regeneration effect of MaskInstances iteration by iteration   *)
(* on configs drawn at the start; ZoneSpec, SnapSpec and NormalsSpec      *)
(* apply checkZone, snapToMesh and computePointCloudNormals to arguments  *)
(* drawn at the start, SourceSpec applies predictWebcam's report to a     *)
(* detector result, and GeometrySpec runs the mount of MaskInstances for  *)
(* a shape: the geometry memo, then the regeneration effect.              *)
(***************************************************************************)
EXTENDS Integers, Sequences, FiniteSets, TLC

\* ------------------------------------------------------------------ bounds
\* Largest density the user can set (the sliders of the source go to 1500).
MaxDensity == 4
\* Head shifts (in image units) of the detector frames: 0 .. MaxShift.
MaxShift == 1
\* Samples of the animation's sine wave per period: norm = k / NormSteps.
NormSteps == 1
\* FaceScanner sessions (mounts) in one behaviour.
MaxSessions == 3

\* --------------------------------------------------------------- constants
\* Upper end of the offset slider, in offset ticks of 0.25 (0.5 in the source).
OffsetSliderMax == 2
\* Lower end of the offset slider.
OffsetSliderMin == 0
\* config.offset of DEFAULT_CONFIG rounded to offset ticks (0.15 -> 1 tick).
DefaultOffset == 1

\* An optional value (a ref or a prop that may be null or undefined): Null, or
\* Some(x) holding x.
Null == <<>>
Some(x) == <<x>>
Get(o) == o[1]
\* customMesh when there is no target mesh.
NoMesh == "none"

\* ----------------------------------------------------------------- vectors
VecAdd(a, b) == <<a[1] + b[1], a[2] + b[2], a[3] + b[3]>>
VecSub(a, b) == <<a[1] - b[1], a[2] - b[2], a[3] - b[3]>>
VecScale(a, k) == <<a[1] * k, a[2] * k, a[3] * k>>
\* Vector3.distanceToSquared
distanceToSquared(a, b) ==
    LET d == VecSub(a, b) IN d[1] * d[1] + d[2] * d[2] + d[3] * d[3]
\* symPos.x *= -1
MirrorX(a) == <<-a[1], a[2], a[3]>>

Abs(x) == IF x < 0 THEN -x ELSE x
Max(a, b) == IF a >= b THEN a ELSE b

RECURSIVE SqrtBetween(_, _, _)
\* The r with r * r <= n < (r + 1) * (r + 1), given lo * lo <= n < hi * hi.
SqrtBetween(n, lo, hi) ==
    IF hi - lo <= 1 THEN lo
    ELSE LET mid == (lo + hi) \div 2
         IN  IF mid * mid <= n THEN SqrtBetween(n, mid, hi) ELSE SqrtBetween(n, lo, mid)
\* Math.floor(Math.sqrt(n)), for n below 46340 * 46340
FloorSqrt(n) ==
    SqrtBetween(n, 0, IF n < 1024 THEN 32 ELSE IF n < 1048576 THEN 1024 ELSE 46341)

\* Vector3.normalize(), in the unit of normals: the vector of length 5 (one
\* offset tick) along v, each coordinate rounded towards zero; the zero
\* vector stays zero.
Normalize(v) ==
    LET len == FloorSqrt(v[1] * v[1] + v[2] * v[2] + v[3] * v[3])
        Coord(x) == IF x >= 0 THEN (5 * x) \div len ELSE -((5 * (-x)) \div len)
    IN  IF len = 0 THEN v ELSE <<Coord(v[1]), Coord(v[2]), Coord(v[3])>>

\* ------------------------------------------------------- the surface model
\* getFacePoint(u, v, 1.45) at the grid lattice, keyed by <<6u, 6v>>, rounded
\* to position units (0.05).
FaceTable(k) ==
    CASE k = <<-6, -6>> -> <<-10, -21, -1>>
      [] k = <<-6, 6>> -> <<-13, 19, -4>>
      [] k = <<-6, 18>> -> <<2, -5, 7>>
      [] k = <<0, -6>> -> <<0, -21, 7>>
      [] k = <<-6, 0>> -> <<-15, -2, -8>>
      [] k = <<0, 0>> -> <<0, -2, 21>>
      [] k = <<0, 6>> -> <<0, 19, 10>>
      [] k = <<-6, 12>> -> <<-7, 18, 4>>
      [] k = <<0, 12>> -> <<0, 18, -12>>
      [] k = <<-2, -6>> -> <<-6, -21, 6>>
      [] k = <<2, -6>> -> <<6, -21, 6>>
      [] k = <<-6, -2>> -> <<-14, -10, -7>>
      [] k = <<-2, -2>> -> <<-10, -10, 14>>
      [] k = <<2, -2>> -> <<10, -10, 14>>
      [] k = <<-6, 2>> -> <<-15, 6, -7>>
      [] k = <<-2, 2>> -> <<-10, 6, 17>>
      [] k = <<2, 2>> -> <<10, 6, 17>>

\* The normal MaskInstances derives on the default head,
\* normalize(x, y * 0.5, z), or (0, 0, 1) at the nose tip (z > 0.8, |x| < 0.2),
\* as the displacement of one offset tick, keyed like FaceTable.
NormalTable(k) ==
    CASE k = <<-6, -6>> -> <<-3, -4, 0>>
      [] k = <<-6, 6>> -> <<-4, 3, -1>>
      [] k = <<-6, 18>> -> <<1, -1, 5>>
      [] k = <<0, -6>> -> <<0, -4, 3>>
      [] k = <<-6, 0>> -> <<-4, 0, -2>>
      [] k = <<0, 0>> -> <<0, 0, 5>>
      [] k = <<0, 6>> -> <<0, 3, 4>>
      [] k = <<-6, 12>> -> <<-3, 4, 2>>
      [] k = <<0, 12>> -> <<0, 3, -4>>
      [] k = <<-2, -6>> -> <<-2, -4, 2>>
      [] k = <<2, -6>> -> <<2, -4, 2>>
      [] k = <<-6, -2>> -> <<-4, -2, -2>>
      [] k = <<-2, -2>> -> <<-3, -1, 4>>
      [] k = <<2, -2>> -> <<3, -1, 4>>
      [] k = <<-6, 2>> -> <<-4, 1, -2>>
      [] k = <<-2, 2>> -> <<-2, 1, 4>>
      [] k = <<2, 2>> -> <<2, 1, 4>>

\* getFacePoint(u, v, 1.45) at the samples of the spiral and random laws for
\* the densities of the placement specification, keyed by <<200u, 200v>>.
FaceSampled(k) ==
    CASE k = <<0, 0>> -> <<0, -2, 21>> [] k = <<-104, 114>> -> <<-13, 12, 9>>
      [] k = <<-85, 93>> -> <<-12, 9, 12>> [] k = <<14, -195>> -> <<1, -21, 8>>
      [] k = <<-73, 81>> -> <<-10, 8, 15>> [] k = <<12, -169>> -> <<1, -19, 10>>
      [] k = <<105, 165>> -> <<12, 16, 7>> [] k = <<-65, 72>> -> <<-9, 7, 16>>
      [] k = <<10, -151>> -> <<1, -18, 12>> [] k = <<94, 147>> -> <<12, 15, 9>>
      [] k = <<-176, -37>> -> <<-16, -7, -3>> [] k = <<-60, 66>> -> <<-9, 6, 17>>
      [] k = <<10, -137>> -> <<1, -17, 12>> [] k = <<85, 134>> -> <<11, 14, 11>>
      [] k = <<-160, -34>> -> <<-16, -7, 0>> [] k = <<153, -117>> -> <<15, -15, 1>>
      [] k = <<-55, 61>> -> <<-8, 5, 18>> [] k = <<9, -127>> -> <<1, -16, 13>>
      [] k = <<79, 124>> -> <<11, 13, 12>> [] k = <<-148, -31>> -> <<-17, -6, 3>>
      [] k = <<142, -108>> -> <<15, -15, 3>> [] k = <<-48, 214>> -> <<-6, 20, 8>>
      [] k = <<-52, 57>> -> <<-8, 5, 19>> [] k = <<8, -119>> -> <<1, -16, 14>>
      [] k = <<74, 116>> -> <<10, 12, 13>> [] k = <<-139, -29>> -> <<-17, -6, 5>>
      [] k = <<133, -101>> -> <<14, -14, 4>> [] k = <<-45, 200>> -> <<-6, 19, 9>>
      [] k = <<-86, -199>> -> <<-8, -21, 5>> [] k = <<-49, 53>> -> <<-7, 4, 19>>
      [] k = <<8, -112>> -> <<1, -15, 15>> [] k = <<70, 109>> -> <<10, 11, 13>>
      [] k = <<-131, -27>> -> <<-17, -6, 6>> [] k = <<125, -96>> -> <<16, -13, 6>>
      [] k = <<-42, 189>> -> <<-6, 18, 10>> [] k = <<-81, -187>> -> <<-8, -20, 6>>
      [] k = <<176, 77>> -> <<16, 7, -3>> [] k = <<-46, 51>> -> <<-7, 4, 19>>
      [] k = <<7, -106>> -> <<1, -14, 15>> [] k = <<66, 104>> -> <<9, 10, 14>>
      [] k = <<-124, -26>> -> <<-16, -6, 8>> [] k = <<119, -91>> -> <<16, -13, 7>>
      [] k = <<-40, 179>> -> <<-5, 18, 11>> [] k = <<-77, -177>> -> <<-7, -20, 7>>
      [] k = <<167, 73>> -> <<16, 7, -1>> [] k = <<-175, 86>> -> <<-15, 8, -3>>
      [] k = <<172, 176>> -> <<14, 17, -1>> [] k = <<-62, 58>> -> <<-9, 5, 18>>
      [] k = <<-96, 162>> -> <<-12, 16, 8>> [] k = <<-92, 76>> -> <<-12, 7, 13>>
      [] k = <<154, -20>> -> <<16, -5, 2>> [] k = <<110, 122>> -> <<13, 12, 8>>
      [] k = <<58, -12>> -> <<9, -4, 17>> [] k = <<30, -152>> -> <<3, -18, 12>>
      [] k = <<126, 30>> -> <<15, 1, 8>> [] k = <<-126, -102>> -> <<-14, -14, 5>>

\* The head normal at those samples, keyed like FaceSampled.
NormalSampled(k) ==
    CASE k = <<0, 0>> -> <<0, 0, 5>> [] k = <<-104, 114>> -> <<-4, 2, 3>>
      [] k = <<-85, 93>> -> <<-3, 1, 4>> [] k = <<14, -195>> -> <<1, -4, 3>>
      [] k = <<-73, 81>> -> <<-3, 1, 4>> [] k = <<12, -169>> -> <<0, -3, 4>>
      [] k = <<105, 165>> -> <<4, 3, 2>> [] k = <<-65, 72>> -> <<-2, 1, 4>>
      [] k = <<10, -151>> -> <<0, -3, 4>> [] k = <<94, 147>> -> <<4, 2, 3>>
      [] k = <<-176, -37>> -> <<-5, -1, -1>> [] k = <<-60, 66>> -> <<-2, 1, 4>>
      [] k = <<10, -137>> -> <<0, -3, 4>> [] k = <<85, 134>> -> <<3, 2, 3>>
      [] k = <<-160, -34>> -> <<-5, -1, 0>> [] k = <<153, -117>> -> <<4, -2, 0>>
      [] k = <<-55, 61>> -> <<-2, 1, 5>> [] k = <<9, -127>> -> <<0, -3, 4>>
      [] k = <<79, 124>> -> <<3, 2, 3>> [] k = <<-148, -31>> -> <<-5, -1, 1>>
      [] k = <<142, -108>> -> <<4, -2, 1>> [] k = <<-48, 214>> -> <<-2, 4, 3>>
      [] k = <<-52, 57>> -> <<-2, 1, 5>> [] k = <<8, -119>> -> <<0, -2, 4>>
      [] k = <<74, 116>> -> <<3, 2, 4>> [] k = <<-139, -29>> -> <<-5, -1, 1>>
      [] k = <<133, -101>> -> <<4, -2, 1>> [] k = <<-45, 200>> -> <<-2, 3, 3>>
      [] k = <<-86, -199>> -> <<-3, -4, 2>> [] k = <<-49, 53>> -> <<-2, 1, 5>>
      [] k = <<8, -112>> -> <<0, -2, 4>> [] k = <<70, 109>> -> <<3, 2, 4>>
      [] k = <<-131, -27>> -> <<-5, -1, 2>> [] k = <<125, -96>> -> <<4, -2, 2>>
      [] k = <<-42, 189>> -> <<-2, 3, 3>> [] k = <<-81, -187>> -> <<-3, -4, 2>>
      [] k = <<176, 77>> -> <<5, 1, -1>> [] k = <<-46, 51>> -> <<-2, 1, 5>>
      [] k = <<7, -106>> -> <<0, -2, 5>> [] k = <<66, 104>> -> <<3, 1, 4>>
      [] k = <<-124, -26>> -> <<-4, -1, 2>> [] k = <<119, -91>> -> <<4, -2, 2>>
      [] k = <<-40, 179>> -> <<-2, 3, 4>> [] k = <<-77, -177>> -> <<-3, -3, 3>>
      [] k = <<167, 73>> -> <<5, 1, 0>> [] k = <<-175, 86>> -> <<-5, 1, -1>>
      [] k = <<172, 176>> -> <<4, 3, 0>> [] k = <<-62, 58>> -> <<-2, 1, 4>>
      [] k = <<-96, 162>> -> <<-4, 2, 2>> [] k = <<-92, 76>> -> <<-3, 1, 3>>
      [] k = <<154, -20>> -> <<5, -1, 0>> [] k = <<110, 122>> -> <<4, 2, 2>>
      [] k = <<58, -12>> -> <<2, 0, 4>> [] k = <<30, -152>> -> <<1, -3, 4>>
      [] k = <<126, 30>> -> <<4, 0, 2>> [] k = <<-126, -102>> -> <<-4, -2, 2>>

\* getFacePoint(u, v, 1.45) on the 10 x 10 lattice of the grid law at
\* density 100, keyed by <<10u, 10v>>.
FaceGrid10(k) ==
    CASE k = <<-10, -10>> -> <<-10, -21, -1>> [] k = <<-8, -10>> -> <<-10, -21, 1>>
      [] k = <<-6, -10>> -> <<-10, -21, 3>> [] k = <<-4, -10>> -> <<-7, -21, 5>>
      [] k = <<-2, -10>> -> <<-4, -21, 7>> [] k = <<0, -10>> -> <<0, -21, 7>>
      [] k = <<2, -10>> -> <<4, -21, 7>> [] k = <<4, -10>> -> <<7, -21, 5>>
      [] k = <<6, -10>> -> <<10, -21, 3>> [] k = <<8, -10>> -> <<10, -21, 1>>
      [] k = <<-10, -8>> -> <<-10, -19, -3>> [] k = <<-8, -8>> -> <<-11, -19, 1>>
      [] k = <<-6, -8>> -> <<-10, -19, 5>> [] k = <<-4, -8>> -> <<-8, -19, 8>>
      [] k = <<-2, -8>> -> <<-4, -19, 11>> [] k = <<0, -8>> -> <<0, -19, 11>>
      [] k = <<2, -8>> -> <<4, -19, 11>> [] k = <<4, -8>> -> <<8, -19, 8>>
      [] k = <<6, -8>> -> <<10, -19, 5>> [] k = <<8, -8>> -> <<11, -19, 1>>
      [] k = <<-10, -6>> -> <<-14, -16, -5>> [] k = <<-8, -6>> -> <<-15, -16, 0>>
      [] k = <<-6, -6>> -> <<-14, -16, 5>> [] k = <<-4, -6>> -> <<-10, -16, 10>>
      [] k = <<-2, -6>> -> <<-6, -16, 13>> [] k = <<0, -6>> -> <<0, -16, 14>>
      [] k = <<2, -6>> -> <<6, -16, 13>> [] k = <<4, -6>> -> <<10, -16, 10>>
      [] k = <<6, -6>> -> <<14, -16, 5>> [] k = <<8, -6>> -> <<15, -16, 0>>
      [] k = <<-10, -4>> -> <<-14, -12, -6>> [] k = <<-8, -4>> -> <<-16, -12, 0>>
      [] k = <<-6, -4>> -> <<-16, -12, 7>> [] k = <<-4, -4>> -> <<-12, -12, 13>>
      [] k = <<-2, -4>> -> <<-6, -12, 16>> [] k = <<0, -4>> -> <<0, -12, 17>>
      [] k = <<2, -4>> -> <<6, -12, 16>> [] k = <<4, -4>> -> <<12, -12, 13>>
      [] k = <<6, -4>> -> <<16, -12, 7>> [] k = <<8, -4>> -> <<16, -12, 0>>
      [] k = <<-10, -2>> -> <<-15, -7, -7>> [] k = <<-8, -2>> -> <<-16, -7, 0>>
      [] k = <<-6, -2>> -> <<-16, -7, 8>> [] k = <<-4, -2>> -> <<-12, -7, 14>>
      [] k = <<-2, -2>> -> <<-6, -7, 18>> [] k = <<0, -2>> -> <<0, -7, 23>>
      [] k = <<2, -2>> -> <<6, -7, 18>> [] k = <<4, -2>> -> <<12, -7, 14>>
      [] k = <<6, -2>> -> <<16, -7, 8>> [] k = <<8, -2>> -> <<16, -7, 0>>
      [] k = <<-10, 0>> -> <<-15, -2, -8>> [] k = <<-8, 0>> -> <<-16, -2, 0>>
      [] k = <<-6, 0>> -> <<-15, -2, 8>> [] k = <<-4, 0>> -> <<-11, -2, 14>>
      [] k = <<-2, 0>> -> <<-6, -2, 19>> [] k = <<0, 0>> -> <<0, -2, 21>>
      [] k = <<2, 0>> -> <<6, -2, 19>> [] k = <<4, 0>> -> <<11, -2, 14>>
      [] k = <<6, 0>> -> <<15, -2, 8>> [] k = <<8, 0>> -> <<16, -2, 0>>
      [] k = <<-10, 2>> -> <<-15, 3, -8>> [] k = <<-8, 2>> -> <<-16, 3, 0>>
      [] k = <<-6, 2>> -> <<-15, 3, 9>> [] k = <<-4, 2>> -> <<-11, 3, 16>>
      [] k = <<-2, 2>> -> <<-6, 3, 20>> [] k = <<0, 2>> -> <<0, 3, 21>>
      [] k = <<2, 2>> -> <<6, 3, 20>> [] k = <<4, 2>> -> <<11, 3, 16>>
      [] k = <<6, 2>> -> <<15, 3, 9>> [] k = <<8, 2>> -> <<16, 3, 0>>
      [] k = <<-10, 4>> -> <<-15, 8, -7>> [] k = <<-8, 4>> -> <<-16, 8, 0>>
      [] k = <<-6, 4>> -> <<-15, 8, 8>> [] k = <<-4, 4>> -> <<-11, 8, 14>>
      [] k = <<-2, 4>> -> <<-6, 8, 18>> [] k = <<0, 4>> -> <<0, 8, 19>>
      [] k = <<2, 4>> -> <<6, 8, 18>> [] k = <<4, 4>> -> <<11, 8, 14>>
      [] k = <<6, 4>> -> <<15, 8, 8>> [] k = <<8, 4>> -> <<16, 8, 0>>
      [] k = <<-10, 6>> -> <<-14, 12, -6>> [] k = <<-8, 6>> -> <<-15, 12, 0>>
      [] k = <<-6, 6>> -> <<-14, 12, 6>> [] k = <<-4, 6>> -> <<-11, 12, 12>>
      [] k = <<-2, 6>> -> <<-6, 12, 15>> [] k = <<0, 6>> -> <<0, 12, 17>>
      [] k = <<2, 6>> -> <<6, 12, 15>> [] k = <<4, 6>> -> <<11, 12, 12>>
      [] k = <<6, 6>> -> <<14, 12, 6>> [] k = <<8, 6>> -> <<15, 12, 0>>
      [] k = <<-10, 8>> -> <<-14, 16, -5>> [] k = <<-8, 8>> -> <<-15, 16, 0>>
      [] k = <<-6, 8>> -> <<-14, 16, 5>> [] k = <<-4, 8>> -> <<-10, 16, 10>>
      [] k = <<-2, 8>> -> <<-6, 16, 13>> [] k = <<0, 8>> -> <<0, 16, 14>>
      [] k = <<2, 8>> -> <<6, 16, 13>> [] k = <<4, 8>> -> <<10, 16, 10>>
      [] k = <<6, 8>> -> <<14, 16, 5>> [] k = <<8, 8>> -> <<15, 16, 0>>

\* The head normal on that lattice, keyed like FaceGrid10.
NormalGrid10(k) ==
    CASE k = <<-10, -10>> -> <<-3, -4, 0>> [] k = <<-8, -10>> -> <<-4, -4, 0>>
      [] k = <<-6, -10>> -> <<-3, -4, 1>> [] k = <<-4, -10>> -> <<-3, -4, 2>>
      [] k = <<-2, -10>> -> <<-2, -4, 3>> [] k = <<0, -10>> -> <<0, -4, 3>>
      [] k = <<2, -10>> -> <<2, -4, 3>> [] k = <<4, -10>> -> <<3, -4, 2>>
      [] k = <<6, -10>> -> <<3, -4, 1>> [] k = <<8, -10>> -> <<4, -4, 0>>
      [] k = <<-10, -8>> -> <<-4, -3, -1>> [] k = <<-8, -8>> -> <<-4, -3, 0>>
      [] k = <<-6, -8>> -> <<-3, -3, 2>> [] k = <<-4, -8>> -> <<-3, -3, 3>>
      [] k = <<-2, -8>> -> <<-1, -3, 4>> [] k = <<0, -8>> -> <<0, -3, 4>>
      [] k = <<2, -8>> -> <<1, -3, 4>> [] k = <<4, -8>> -> <<3, -3, 3>>
      [] k = <<6, -8>> -> <<3, -3, 2>> [] k = <<8, -8>> -> <<4, -3, 0>>
      [] k = <<-10, -6>> -> <<-4, -2, -2>> [] k = <<-8, -6>> -> <<-4, -2, 0>>
      [] k = <<-6, -6>> -> <<-4, -2, 2>> [] k = <<-4, -6>> -> <<-3, -2, 3>>
      [] k = <<-2, -6>> -> <<-2, -2, 4>> [] k = <<0, -6>> -> <<0, -2, 4>>
      [] k = <<2, -6>> -> <<2, -2, 4>> [] k = <<4, -6>> -> <<3, -2, 3>>
      [] k = <<6, -6>> -> <<4, -2, 2>> [] k = <<8, -6>> -> <<4, -2, 0>>
      [] k = <<-10, -4>> -> <<-4, -2, -2>> [] k = <<-8, -4>> -> <<-5, -2, 0>>
      [] k = <<-6, -4>> -> <<-4, -2, 2>> [] k = <<-4, -4>> -> <<-3, -2, 3>>
      [] k = <<-2, -4>> -> <<-2, -2, 4>> [] k = <<0, -4>> -> <<0, 0, 5>>
      [] k = <<2, -4>> -> <<2, -2, 4>> [] k = <<4, -4>> -> <<3, -2, 3>>
      [] k = <<6, -4>> -> <<4, -2, 2>> [] k = <<8, -4>> -> <<5, -2, 0>>
      [] k = <<-10, -2>> -> <<-4, -1, -2>> [] k = <<-8, -2>> -> <<-5, -1, 0>>
      [] k = <<-6, -2>> -> <<-4, -1, 2>> [] k = <<-4, -2>> -> <<-3, -1, 4>>
      [] k = <<-2, -2>> -> <<-2, -1, 5>> [] k = <<0, -2>> -> <<0, 0, 5>>
      [] k = <<2, -2>> -> <<2, -1, 5>> [] k = <<4, -2>> -> <<3, -1, 4>>
      [] k = <<6, -2>> -> <<4, -1, 2>> [] k = <<8, -2>> -> <<5, -1, 0>>
      [] k = <<-10, 0>> -> <<-4, 0, -2>> [] k = <<-8, 0>> -> <<-5, 0, 0>>
      [] k = <<-6, 0>> -> <<-4, 0, 2>> [] k = <<-4, 0>> -> <<-3, 0, 4>>
      [] k = <<-2, 0>> -> <<-2, 0, 5>> [] k = <<0, 0>> -> <<0, 0, 5>>
      [] k = <<2, 0>> -> <<2, 0, 5>> [] k = <<4, 0>> -> <<3, 0, 4>>
      [] k = <<6, 0>> -> <<4, 0, 2>> [] k = <<8, 0>> -> <<5, 0, 0>>
      [] k = <<-10, 2>> -> <<-4, 0, -2>> [] k = <<-8, 2>> -> <<-5, 0, 0>>
      [] k = <<-6, 2>> -> <<-4, 0, 3>> [] k = <<-4, 2>> -> <<-3, 0, 4>>
      [] k = <<-2, 2>> -> <<-1, 0, 5>> [] k = <<0, 2>> -> <<0, 0, 5>>
      [] k = <<2, 2>> -> <<1, 0, 5>> [] k = <<4, 2>> -> <<3, 0, 4>>
      [] k = <<6, 2>> -> <<4, 0, 3>> [] k = <<8, 2>> -> <<5, 0, 0>>
      [] k = <<-10, 4>> -> <<-4, 1, -2>> [] k = <<-8, 4>> -> <<-5, 1, 0>>
      [] k = <<-6, 4>> -> <<-4, 1, 2>> [] k = <<-4, 4>> -> <<-3, 1, 4>>
      [] k = <<-2, 4>> -> <<-2, 1, 5>> [] k = <<0, 4>> -> <<0, 0, 5>>
      [] k = <<2, 4>> -> <<2, 1, 5>> [] k = <<4, 4>> -> <<3, 1, 4>>
      [] k = <<6, 4>> -> <<4, 1, 2>> [] k = <<8, 4>> -> <<5, 1, 0>>
      [] k = <<-10, 6>> -> <<-4, 2, -2>> [] k = <<-8, 6>> -> <<-5, 2, 0>>
      [] k = <<-6, 6>> -> <<-4, 2, 2>> [] k = <<-4, 6>> -> <<-3, 2, 3>>
      [] k = <<-2, 6>> -> <<-2, 2, 4>> [] k = <<0, 6>> -> <<0, 0, 5>>
      [] k = <<2, 6>> -> <<2, 2, 4>> [] k = <<4, 6>> -> <<3, 2, 3>>
      [] k = <<6, 6>> -> <<4, 2, 2>> [] k = <<8, 6>> -> <<5, 2, 0>>
      [] k = <<-10, 8>> -> <<-4, 2, -2>> [] k = <<-8, 8>> -> <<-4, 2, 0>>
      [] k = <<-6, 8>> -> <<-4, 2, 2>> [] k = <<-4, 8>> -> <<-3, 2, 3>>
      [] k = <<-2, 8>> -> <<-2, 3, 4>> [] k = <<0, 8>> -> <<0, 3, 4>>
      [] k = <<2, 8>> -> <<2, 3, 4>> [] k = <<4, 8>> -> <<3, 2, 3>>
      [] k = <<6, 8>> -> <<4, 2, 2>> [] k = <<8, 8>> -> <<4, 2, 0>>

\* getFacePoint at the coordinates of the 8 x 8 grid that lie in the ocular
\* band's rectangle, keyed by <<8u, 8v>>.
FaceGrid8(k) ==
    CASE k = <<-6, 2>> -> <<-16, 4, 2>> [] k = <<-4, 2>> -> <<-13, 4, 13>>
      [] k = <<-2, 2>> -> <<-7, 4, 19>> [] k = <<0, 2>> -> <<0, 4, 21>>
      [] k = <<2, 2>> -> <<7, 4, 19>> [] k = <<4, 2>> -> <<13, 4, 13>>
      [] k = <<6, 2>> -> <<16, 4, 2>> [] k = <<-6, 4>> -> <<-15, 10, 2>>
      [] k = <<-4, 4>> -> <<-13, 10, 10>> [] k = <<-2, 4>> -> <<-7, 10, 16>>
      [] k = <<0, 4>> -> <<0, 10, 18>> [] k = <<2, 4>> -> <<7, 10, 16>>
      [] k = <<4, 4>> -> <<13, 10, 10>> [] k = <<6, 4>> -> <<15, 10, 2>>

\* The default-head normal at the same coordinates, keyed like FaceGrid8.
NormalGrid8(k) ==
    CASE k = <<-6, 2>> -> <<-5, 1, 1>> [] k = <<-4, 2>> -> <<-4, 1, 3>>
      [] k = <<-2, 2>> -> <<-2, 0, 5>> [] k = <<0, 2>> -> <<0, 0, 5>>
      [] k = <<2, 2>> -> <<2, 0, 5>> [] k = <<4, 2>> -> <<4, 1, 3>>
      [] k = <<6, 2>> -> <<5, 1, 1>> [] k = <<-6, 4>> -> <<-5, 2, 1>>
      [] k = <<-4, 4>> -> <<-4, 1, 3>> [] k = <<-2, 4>> -> <<-2, 1, 4>>
      [] k = <<0, 4>> -> <<0, 0, 5>> [] k = <<2, 4>> -> <<2, 1, 4>>
      [] k = <<4, 4>> -> <<4, 1, 3>> [] k = <<6, 4>> -> <<5, 2, 1>>

LatticeKey(uN, vN, den) == <<(6 * uN) \div den, (6 * vN) \div den>>
\* getFacePoint(u, v, config.headWidth) with u = uN/den, v = vN/den
getFacePoint(uN, vN, den) ==
    IF den = 200 THEN FaceSampled(<<uN, vN>>)
    ELSE IF den = 10 THEN FaceGrid10(<<uN, vN>>)
    ELSE IF den = 8 THEN FaceGrid8(<<uN, vN>>)
    ELSE FaceTable(LatticeKey(uN, vN, den))
\* normal.copy(pFinal).setY(pFinal.y * 0.5).normalize(), nose-tip override
HeadNormal(uN, vN, den) ==
    IF den = 200 THEN NormalSampled(<<uN, vN>>)
    ELSE IF den = 10 THEN NormalGrid10(<<uN, vN>>)
    ELSE IF den = 8 THEN NormalGrid8(<<uN, vN>>)
    ELSE NormalTable(LatticeKey(uN, vN, den))

\* config.scaleBase + random(i * 0.1) * config.scaleVar in hundredths, with the
\* default scaleBase 0.08 and scaleVar 0.5 (the sine hash, seed 99, tabulated).
InstanceScale(i) ==
    CASE i = 0 -> 55 [] i = 1 -> 38 [] i = 2 -> 19 [] i = 3 -> 53 [] i = 4 -> 46
      [] i = 5 -> 10 [] i = 6 -> 10 [] i = 7 -> 17 [] i = 8 -> 14 [] i = 9 -> 46
      [] i = 10 -> 25 [] i = 11 -> 34 [] i = 12 -> 30 [] i = 13 -> 50 [] i = 14 -> 13
      [] i = 15 -> 28 [] i = 16 -> 48 [] i = 17 -> 24 [] i = 18 -> 9 [] i = 19 -> 16
      [] i = 20 -> 21 [] i = 21 -> 18 [] i = 22 -> 23 [] i = 23 -> 29 [] i = 24 -> 11
      [] i = 25 -> 28 [] i = 26 -> 26 [] i = 27 -> 45 [] i = 28 -> 15 [] i = 29 -> 16
      [] i = 30 -> 21 [] i = 31 -> 57 [] i = 32 -> 47 [] i = 33 -> 15 [] i = 34 -> 36
      [] i = 35 -> 31 [] i = 36 -> 21 [] i = 37 -> 22 [] i = 38 -> 46 [] i = 39 -> 43
      [] i = 40 -> 52 [] i = 41 -> 50 [] i = 42 -> 41 [] i = 43 -> 57 [] i = 44 -> 56
      [] i = 45 -> 9 [] i = 46 -> 55 [] i = 47 -> 39 [] i = 48 -> 9 [] i = 49 -> 15
      [] i = 50 -> 47 [] i = 51 -> 36 [] i = 52 -> 45 [] i = 53 -> 20 [] i = 54 -> 27
      [] i = 55 -> 57 [] i = 56 -> 14 [] i = 57 -> 18 [] i = 58 -> 49 [] i = 59 -> 43
      [] i = 60 -> 40 [] i = 61 -> 37 [] i = 62 -> 28 [] i = 63 -> 10 [] i = 64 -> 30
      [] i = 65 -> 35 [] i = 66 -> 21 [] i = 67 -> 40 [] i = 68 -> 42 [] i = 69 -> 36
      [] i = 70 -> 37 [] i = 71 -> 20 [] i = 72 -> 26 [] i = 73 -> 10 [] i = 74 -> 52
      [] i = 75 -> 54 [] i = 76 -> 49 [] i = 77 -> 57 [] i = 78 -> 33 [] i = 79 -> 30
      [] i = 80 -> 49 [] i = 81 -> 44 [] i = 82 -> 31 [] i = 83 -> 38 [] i = 84 -> 12
      [] i = 85 -> 23 [] i = 86 -> 21 [] i = 87 -> 34 [] i = 88 -> 29 [] i = 89 -> 58
      [] i = 90 -> 17 [] i = 91 -> 46 [] i = 92 -> 31 [] i = 93 -> 55 [] i = 94 -> 51
      [] i = 95 -> 52 [] i = 96 -> 40 [] i = 97 -> 48 [] i = 98 -> 55 [] i = 99 -> 41

\* ----------------------------------------------------------- the zone mask
\* Variant of checkZone whose ocular band cuts eye holes of radius 0.12.
checkZone_SmallHoles(uN, vN, den, zone) ==
    IF zone = "full" THEN TRUE
    ELSE IF zone = "domino" THEN
        IF 10 * vN > den /\ 10 * vN < 6 * den /\ 100 * Abs(uN) < 85 * den THEN
            LET dLeftSq == (100 * uN + 40 * den) * (100 * uN + 40 * den)
                           + (100 * vN - 35 * den) * (100 * vN - 35 * den)
                dRightSq == (100 * uN - 40 * den) * (100 * uN - 40 * den)
                            + (100 * vN - 35 * den) * (100 * vN - 35 * den)
            IN  IF dLeftSq < (12 * den) * (12 * den) \/ dRightSq < (12 * den) * (12 * den)
                THEN FALSE ELSE TRUE
        ELSE FALSE
    ELSE IF zone = "respirator" THEN
        10 * vN < -den /\ 10 * vN > -8 * den /\ 10 * Abs(uN) < 6 * den
    ELSE IF zone = "jaw" THEN
        10 * vN < -4 * den \/ (10 * Abs(uN) > 7 * den /\ vN < 0)
    ELSE TRUE

\* checkZone(u, v, zone), u = uN/den, v = vN/den, den > 0; every comparison is
\* the source's, multiplied out.
checkZone(uN, vN, den, zone) ==
    IF zone = "full" THEN TRUE
    ELSE IF zone = "domino" THEN
        IF 10 * vN > den /\ 10 * vN < 6 * den /\ 100 * Abs(uN) < 85 * den THEN
            LET dLeftSq == (100 * uN + 40 * den) * (100 * uN + 40 * den)
                           + (100 * vN - 35 * den) * (100 * vN - 35 * den)
                dRightSq == (100 * uN - 40 * den) * (100 * uN - 40 * den)
                            + (100 * vN - 35 * den) * (100 * vN - 35 * den)
            IN  IF dLeftSq < (15 * den) * (15 * den) \/ dRightSq < (15 * den) * (15 * den)
                THEN FALSE ELSE TRUE
        ELSE FALSE
    ELSE IF zone = "respirator" THEN
        10 * vN < -den /\ 10 * vN > -8 * den /\ 10 * Abs(uN) < 6 * den
    ELSE IF zone = "jaw" THEN
        10 * vN < -4 * den \/ (10 * Abs(uN) > 7 * den /\ vN < 0)
    ELSE TRUE

\* Variant of EyeCutout that cuts the left eye only.
EyeCutout_LeftOnly(uN, vN, den) ==
    LET dLeftSq == (100 * uN + 35 * den) * (100 * uN + 35 * den)
                   + (100 * vN - 35 * den) * (100 * vN - 35 * den)
    IN  dLeftSq < (12 * den) * (12 * den)

\* The caller's eye cutout: within 0.12 of (-0.35, 0.35) or (0.35, 0.35).
EyeCutout(uN, vN, den) ==
    LET dLeftSq == (100 * uN + 35 * den) * (100 * uN + 35 * den)
                   + (100 * vN - 35 * den) * (100 * vN - 35 * den)
        dRightSq == (100 * uN - 35 * den) * (100 * uN - 35 * den)
                    + (100 * vN - 35 * den) * (100 * vN - 35 * den)
    IN  dLeftSq < (12 * den) * (12 * den) \/ dRightSq < (12 * den) * (12 * den)

\* ------------------------------------------------------ distribution laws
\* Integer division that truncates towards zero.
TruncDiv(a, b) == IF a >= 0 THEN a \div b ELSE -((-a) \div b)

\* mapRange(value, inMin, inMax, outMin, outMax): the numerator of the result
\* over the denominator inMax - inMin.
mapRange(value, inMin, inMax, outMin, outMax) ==
    (value - inMin) * (outMax - outMin) + outMin * (inMax - inMin)

\* Math.cos(i * 2.39996) in thousandths.
SpiralCos(i) ==
    CASE i = 0 -> 1000 [] i = 1 -> -737 [] i = 2 -> 87 [] i = 3 -> 608
      [] i = 4 -> -985 [] i = 5 -> 844 [] i = 6 -> -260 [] i = 7 -> -461
      [] i = 8 -> 939 [] i = 9 -> -924 [] i = 10 -> 424

\* Math.sin(i * 2.39996) in thousandths.
SpiralSin(i) ==
    CASE i = 0 -> 0 [] i = 1 -> 675 [] i = 2 -> -996 [] i = 3 -> 794
      [] i = 4 -> -174 [] i = 5 -> -537 [] i = 6 -> 966 [] i = 7 -> -887
      [] i = 8 -> 343 [] i = 9 -> 382 [] i = 10 -> -906

\* random(offset) = frac(Math.sin(99 + offset) * 10000) in 200ths.
RandomHash(offset) ==
    CASE offset = 0 -> 186 [] offset = 1 -> 69 [] offset = 2 -> 52 [] offset = 3 -> 54
      [] offset = 4 -> 177 [] offset = 5 -> 155 [] offset = 6 -> 129 [] offset = 7 -> 115
      [] offset = 8 -> 163 [] offset = 9 -> 37 [] offset = 10 -> 85 [] offset = 1000 -> 188
      [] offset = 1001 -> 129 [] offset = 1002 -> 181 [] offset = 1003 -> 138 [] offset = 1004 -> 90
      [] offset = 1005 -> 161 [] offset = 1006 -> 94 [] offset = 1007 -> 24 [] offset = 1008 -> 115
      [] offset = 1009 -> 49 [] offset = 1010 -> 15

\* The grid law: dim = floor(sqrt(count)), row and col from i.
GridSample(i, count) ==
    LET dim == FloorSqrt(count)
        row == i \div dim
        col == i % dim
    IN  [uN |-> mapRange(col, 0, dim, -1, 1), vN |-> mapRange(row, 0, dim, -1, 1),
         den |-> dim]

\* The spiral law: angle = i * 2.39996, r = sqrt(i) / sqrt(count) (r in
\* thousandths), u = r cos(angle), v = r sin(angle) * 1.2, in 200ths.
SpiralSample(i, count) ==
    LET r == FloorSqrt((1000000 * i) \div count)
    IN  [uN |-> TruncDiv(r * SpiralCos(i), 5000),
         vN |-> TruncDiv(r * SpiralSin(i) * 12, 50000),
         den |-> 200]

\* The random law: u = mapRange(random(i), 0, 1, -1, 1),
\* v = mapRange(random(i + 1000), 0, 1, -1, 1), in 200ths.
RandomSample(i) ==
    [uN |-> mapRange(RandomHash(i), 0, 200, -1, 1),
     vN |-> mapRange(RandomHash(i + 1000), 0, 200, -1, 1),
     den |-> 200]

\* The candidate coordinate (u, v) = (uN/den, vN/den) of iteration i.
Sample(cfg, i) ==
    IF cfg.distribution = "grid" THEN GridSample(i, cfg.density)
    ELSE IF cfg.distribution = "spiral" THEN SpiralSample(i, cfg.density)
    ELSE RandomSample(i)

\* ------------------------------------------------------------ target meshes
\* The target meshes of the model, as vertex and normal buffers: the point
\* cloud a scan captures, an uploaded OBJ mesh, a geometry with no vertices, a
\* geometry without a normal attribute and a dense geometry.
MeshIds == {"scan", "obj"}
\* The dense geometry: DenseCount vertices, more than twice StrideDivisor, so
\* that snapToMesh strides over it.
DenseCount == 4001
DenseVertex(i) == <<4 * (i % 3) - 4, 4 * ((i \div 3) % 2) - 12, 8 - 2 * (i % 2)>>
MeshVertices(m) ==
    IF m = "scan" THEN << <<-8, -20, 2>>, <<0, -4, 18>>, <<8, -20, 2>> >>
    ELSE IF m = "obj" THEN << <<-12, 0, 0>>, <<0, -16, 8>> >>
    ELSE IF m = "bare" THEN << <<0, -20, 0>>, <<0, 0, 15>>, <<0, 0, -15>> >>
    ELSE IF m = "dense" THEN [i \in 1..DenseCount |-> DenseVertex(i)]
    ELSE <<>>
\* geometry.attributes.normal (<<>>: the geometry has no normal attribute)
MeshNormals(m) ==
    IF m = "scan" THEN << <<-2, -4, 1>>, <<0, 0, 5>>, <<2, -4, 1>> >>
    ELSE IF m = "obj" THEN << <<-5, 0, 0>>, <<0, -3, 4>> >>
    ELSE IF m = "dense" THEN [i \in 1..DenseCount |-> <<0, 0, 5>>]
    ELSE <<>>

\* The identity Matrix4 the App passes as customMeshMatrix; the model's
\* matrixWorld values are translations, given by their translation vector.
IdentityMatrix == <<0, 0, 0>>
\* Vector3.applyMatrix4(matrixWorld)
applyMatrix4(v, matrixWorld) == VecAdd(v, matrixWorld)

\* posAttribute.count / 2000 decides the stride of snapToMesh.
StrideDivisor == 2000

\* Variant of SnapKeep that compares with <=, so that the last of several
\* nearest vertices wins.
SnapKeep_LastOnTies(best, next) ==
    IF next.bestIndex = 0 THEN best
    ELSE IF best.bestIndex = 0 \/ next.minDistanceSq <= best.minDistanceSq THEN next
    ELSE best

\* if (dSq < minDistanceSq) { minDistanceSq = dSq; bestIndex = i; }: what the
\* loop holds after it met the vertex of next while holding best.  bestIndex
\* is 1-based (source index + 1), and 0 stands for -1 with minDistanceSq
\* Infinity.
SnapKeep(best, next) ==
    IF next.bestIndex = 0 THEN best
    ELSE IF best.bestIndex = 0 \/ next.minDistanceSq < best.minDistanceSq THEN next
    ELSE best

\* One iteration of the loop of snapToMesh, at vertex i, entered with best.
SnapVisit(target, verts, matrixWorld, i, best) ==
    SnapKeep(best, [minDistanceSq |-> distanceToSquared(target,
                                          applyMatrix4(verts[i], matrixWorld)),
                    bestIndex |-> i])

\* The loop's state before its first iteration.
SnapNone == [minDistanceSq |-> 0, bestIndex |-> 0]

RECURSIVE SnapLoop(_, _, _, _, _, _)
\* What the iterations lo .. hi of the loop of snapToMesh hold at their end
\* when entered with SnapNone: the first nearest vertex of the range;
\* iteration k visits source index k * step.  The range is halved so that the
\* evaluation stays shallow: the later half changes what the earlier half
\* holds exactly when its own first nearest vertex is strictly nearer.
SnapLoop(target, verts, matrixWorld, step, lo, hi) ==
    IF lo > hi THEN SnapNone
    ELSE IF lo = hi THEN SnapVisit(target, verts, matrixWorld, lo * step + 1, SnapNone)
    ELSE SnapKeep(SnapLoop(target, verts, matrixWorld, step, lo, (lo + hi) \div 2),
                  SnapLoop(target, verts, matrixWorld, step, (lo + hi) \div 2 + 1, hi))

\* snapToMesh(target, geometry, matrixWorld).  The normal matrix of a
\* translation is the identity, and the normals of the buffers are normalized.
snapToMesh(target, verts, norms, matrixWorld) ==
    LET step == Max(1, Len(verts) \div StrideDivisor)
        last == (Len(verts) - 1) \div step
        bestIndex == IF Len(verts) = 0 THEN 0
                     ELSE SnapLoop(target, verts, matrixWorld, step, 0, last).bestIndex
        finalPos == applyMatrix4(verts[bestIndex], matrixWorld)
    IN  IF bestIndex # 0
        THEN [pos |-> finalPos,
              norm |-> IF norms # <<>> THEN norms[bestIndex] ELSE Normalize(finalPos)]
        ELSE [pos |-> target, norm |-> Normalize(target)]

\* ----------------------------------------------------- the normal estimator
\* Vector3.crossVectors and Vector3.dot
crossVectors(a, b) ==
    <<a[2] * b[3] - a[3] * b[2], a[3] * b[1] - a[1] * b[3], a[1] * b[2] - a[2] * b[1]>>
dot(a, b) == a[1] * b[1] + a[2] * b[2] + a[3] * b[3]

\* const k = 6: the neighbors kept per point.
NeighborsKept == 6

\* neighbors.push(e); neighbors.sort((a, b) => a.dist - b.dist) on a sorted
\* list: the sort is stable, so e goes behind the entries at its distance.
PushSorted(neighbors, e) ==
    SelectSeq(neighbors, LAMBDA x : x.dist <= e.dist) \o <<e>>
        \o SelectSeq(neighbors, LAMBDA x : x.dist > e.dist)

\* The body of the neighbor loop for the point j at squared distance d.
NeighborVisit(neighbors, j, d) ==
    IF Len(neighbors) < NeighborsKept
    THEN PushSorted(neighbors, [idx |-> j, dist |-> d])
    ELSE IF d < neighbors[Len(neighbors)].dist
    THEN PushSorted(SubSeq(neighbors, 1, Len(neighbors) - 1), [idx |-> j, dist |-> d])
    ELSE neighbors

RECURSIVE NeighborLoop(_, _, _, _)
\* The neighbor loop of point i from j on (1-based), entered with neighbors.
NeighborLoop(positions, i, j, neighbors) ==
    IF j > Len(positions) THEN neighbors
    ELSE IF j = i THEN NeighborLoop(positions, i, j + 1, neighbors)
    ELSE NeighborLoop(positions, i, j + 1,
                      NeighborVisit(neighbors, j,
                                    distanceToSquared(positions[i], positions[j])))

\* Variant of FallbackNormal that points up.
FallbackNormal_Up(p1) == <<0, 5, 0>>

\* Fallback to spherical: p1.clone().normalize()
FallbackNormal(p1) == Normalize(p1)

\* if (n.dot(p1) < 0) n.negate()
OrientOutwards(n, p1) == IF dot(n, p1) < 0 THEN VecScale(n, -1) ELSE n

\* The cross product of the vectors to the first two neighbors, normalized
\* and oriented outwards.
LocalPlaneNormal(p1, p2, p3) ==
    OrientOutwards(Normalize(crossVectors(VecSub(p2, p1), VecSub(p3, p1))), p1)

\* The normal of a point p1 with the neighbors found.
NormalFrom(positions, p1, neighbors) ==
    IF Len(neighbors) >= 2
    THEN LocalPlaneNormal(p1, positions[neighbors[1].idx], positions[neighbors[2].idx])
    ELSE FallbackNormal(p1)

\* computePointCloudNormals(positions), positions and normals as sequences
\* of vectors.
computePointCloudNormals(positions) ==
    [i \in 1..Len(positions) |->
        NormalFrom(positions, positions[i], NeighborLoop(positions, i, 1, <<>>))]

\* ------------------------------------------------------ instance generation
\* Quaternion.setFromUnitVectors(upVec, normal): the rotation is determined by
\* the two vectors it is built from.
setFromUnitVectors(normal) == [from |-> <<0, 1, 0>>, to |-> normal]

\* tempObj.updateMatrix(): the instance matrix composed of position, rotation
\* and uniform scale.
ComposeMatrix(position, normal, scale) ==
    [position |-> position, quaternion |-> setFromUnitVectors(normal), scale |-> scale]

\* tempObj as constructed: new THREE.Object3D().
FreshObject3D ==
    [position |-> <<0, 0, 0>>, quaternion |-> setFromUnitVectors(<<0, 5, 0>>),
     scale |-> 100, matrix |-> ComposeMatrix(<<0, 0, 0>>, <<0, 5, 0>>, 100)]
\* tempColor as constructed: new THREE.Color().
FreshColor == <<100, 100, 100>>

\* Object3D.updateMatrix(): matrix.compose(position, quaternion, scale)
updateMatrix(obj) ==
    [obj EXCEPT !.matrix = [position |-> obj.position, quaternion |-> obj.quaternion,
                            scale |-> obj.scale]]

\* Variant of PoseObject that leaves tempObj.scale as the last user set it.
PoseObject_StaleScale(obj, position, normal, scale) ==
    updateMatrix([obj EXCEPT !.position = position,
                             !.quaternion = setFromUnitVectors(normal)])

\* tempObj.position.copy(p); tempObj.setRotationFromQuaternion(q);
\* tempObj.scale.set(s, s, s); tempObj.updateMatrix()
PoseObject(obj, position, normal, scale) ==
    updateMatrix([obj EXCEPT !.position = position,
                             !.quaternion = setFromUnitVectors(normal),
                             !.scale = scale])

\* config.primaryColor of DEFAULT_CONFIG (#00ff9d), channels in percent.
PrimaryColor == <<0, 100, 62>>

\* The color of an instance: tempColor.set(primaryColor), or
\* setHSL(0.5, 0.8, mapRange(z, 0, 1.5, 0.2, 1.0) * 0.8) in percent, or
\* setRGB(normal * 0.5 + 0.5) in tenths.
InstanceColor(cfg, pFinal, normal) ==
    IF cfg.colorMode = "solid" THEN PrimaryColor
    ELSE IF cfg.colorMode = "depth"
    THEN <<50, 80, TruncDiv(mapRange(pFinal[3], 0, 30, 20, 100) * 8, 300)>>
    ELSE <<normal[1] + 5, normal[2] + 5, normal[3] + 5>>

\* One entry of userData.instances.
InstanceRecord(position, normal, scale, color, matrix) ==
    [position |-> position, normal |-> normal, scale |-> scale, color |-> color,
     matrix |-> matrix]

\* Variant of AppendInstances that appends the mirrored instance whether or
\* not config.symmetry is set.
AppendInstances_AlwaysMirror(cfg, s, obj, color, pFinal, normal, scale) ==
    LET obj1 == PoseObject(obj, pFinal, normal, scale)
        color1 == InstanceColor(cfg, pFinal, normal)
        obj2 == PoseObject(obj1, MirrorX(pFinal), MirrorX(normal), scale)
    IN  [sample |-> s,
         placed |-> <<InstanceRecord(pFinal, normal, scale, color1, obj1.matrix),
                      InstanceRecord(MirrorX(pFinal), MirrorX(normal), scale, color1,
                                     obj2.matrix)>>,
         tempObj |-> obj2, tempColor |-> color1]

\* Variant of AppendInstances that sets tempColor again for the mirrored
\* instance, from the mirrored position and normal.
AppendInstances_MirrorRecolored(cfg, s, obj, color, pFinal, normal, scale) ==
    LET obj1 == PoseObject(obj, pFinal, normal, scale)
        color1 == InstanceColor(cfg, pFinal, normal)
        color2 == InstanceColor(cfg, MirrorX(pFinal), MirrorX(normal))
    IN  IF cfg.symmetry
        THEN LET obj2 == PoseObject(obj1, MirrorX(pFinal), MirrorX(normal), scale)
             IN  [sample |-> s,
                  placed |-> <<InstanceRecord(pFinal, normal, scale, color1, obj1.matrix),
                               InstanceRecord(MirrorX(pFinal), MirrorX(normal), scale,
                                              color2, obj2.matrix)>>,
                  tempObj |-> obj2, tempColor |-> color2]
        ELSE [sample |-> s,
              placed |-> <<InstanceRecord(pFinal, normal, scale, color1, obj1.matrix)>>,
              tempObj |-> obj1, tempColor |-> color1]

\* The end of the loop body: tempObj is posed, tempColor is set, the instance
\* is pushed, and with config.symmetry the mirrored instance is posed and
\* pushed with the color tempColor holds.
AppendInstances(cfg, s, obj, color, pFinal, normal, scale) ==
    LET obj1 == PoseObject(obj, pFinal, normal, scale)
        color1 == InstanceColor(cfg, pFinal, normal)
    IN  IF cfg.symmetry
        THEN LET obj2 == PoseObject(obj1, MirrorX(pFinal), MirrorX(normal), scale)
             IN  [sample |-> s,
                  placed |-> <<InstanceRecord(pFinal, normal, scale, color1, obj1.matrix),
                               InstanceRecord(MirrorX(pFinal), MirrorX(normal), scale,
                                              color1, obj2.matrix)>>,
                  tempObj |-> obj2, tempColor |-> color1]
        ELSE [sample |-> s,
              placed |-> <<InstanceRecord(pFinal, normal, scale, color1, obj1.matrix)>>,
              tempObj |-> obj1, tempColor |-> color1]

\* pFinal.add(normal.multiplyScalar(config.offset)) and the scale of index i,
\* for the surface point and normal snap.
OffsetPoint(cfg, i, s, obj, color, snap) ==
    AppendInstances(cfg, s, obj, color, VecAdd(snap.pos, VecScale(snap.norm, cfg.offset)),
                    snap.norm, InstanceScale(i))

\* The surface point of an accepted coordinate s: the parametric head's point
\* pMath and analytic normal, or with a target mesh the snap of pMath.
SurfacePoint(cfg, mesh, matrixWorld, i, s, obj, color, pMath) ==
    OffsetPoint(cfg, i, s, obj, color,
                IF mesh # NoMesh
                THEN snapToMesh(pMath, MeshVertices(mesh), MeshNormals(mesh), matrixWorld)
                ELSE [pos |-> pMath, norm |-> HeadNormal(s.uN, s.vN, s.den)])

\* The zone filter and the eye cutout for the candidate coordinate s: a
\* rejected coordinate places nothing and leaves the scratch objects alone.
FilterSample(cfg, mesh, matrixWorld, i, s, obj, color) ==
    IF ~checkZone(s.uN, s.vN, s.den, cfg.zone)
    THEN [sample |-> s, placed |-> <<>>, tempObj |-> obj, tempColor |-> color]
    ELSE IF cfg.zone \in {"full", "domino"} /\ EyeCutout(s.uN, s.vN, s.den)
    THEN [sample |-> s, placed |-> <<>>, tempObj |-> obj, tempColor |-> color]
    ELSE SurfacePoint(cfg, mesh, matrixWorld, i, s, obj, color,
                      getFacePoint(s.uN, s.vN, s.den))

\* The body of the generation loop for index i, entered with the scratch
\* objects tempObj = obj and tempColor = color: the candidate coordinate, the
\* instances it appends and the scratch objects it leaves.
LoopBody(cfg, mesh, matrixWorld, i, obj, color) ==
    FilterSample(cfg, mesh, matrixWorld, i, Sample(cfg, i), obj, color)

\* The instances the loop body appends for index i (the scratch objects are
\* overwritten before they are read).
GenerateAt(cfg, mesh, i) ==
    LoopBody(cfg, mesh, IdentityMatrix, i, FreshObject3D, FreshColor).placed

RECURSIVE GenerateFrom(_, _, _)
GenerateFrom(cfg, mesh, i) ==
    IF i >= cfg.density THEN <<>>
    ELSE GenerateAt(cfg, mesh, i) \o GenerateFrom(cfg, mesh, i + 1)

\* userData.instances after the regeneration effect ran for (cfg, mesh)
Generate(cfg, mesh) == GenerateFrom(cfg, mesh, 0)

\* The instance matrices the regeneration writes, slot by slot.
RestMatrices(insts) == [k \in 1..Len(insts) |-> insts[k].matrix]

\* ------------------------------------------------------ the landmark source
\* Image coordinates are in units of 0.05 of the image; 0.5 is ImgCentre.
ImgCentre == 10
\* visibleWidthAtDepth and visibleHeightAtDepth, in position units per image
\* unit, at the camera distance of the model's frames (distToCam = 4).
VisW == 6
VisH == 3
\* targetZ = 4.0 - distToCam at that distance.
TargetZ == 0
\* The detector's landmark with source index 1 (the nose), 1-based.
NoseIdx == 2

\* results.faceLandmarks[0] of a face in the middle of the image: three
\* landmarks (the reference detector gives 478), index order fixed.
BaseFace == << <<12, 11, -1>>, <<10, 11, -4>>, <<8, 11, -1>> >>

\* The head shifts of the detector frames, along the image's x axis.
HeadShifts == 0..MaxShift
\* The detector's landmarks when the head is shifted by h image units.
DetectorFrame(h) ==
    [i \in 1..Len(BaseFace) |-> <<BaseFace[i][1] + h, BaseFace[i][2], BaseFace[i][3]>>]

\* One landmark of worldLandmarks: wx = -lx * visibleWidthAtDepth,
\* wy = -ly * visibleHeightAtDepth, wz = targetZ - l.z * depthScale.
WorldLandmark(l) ==
    <<-((l[1] - ImgCentre) * VisW), -((l[2] - ImgCentre) * VisH), TargetZ - l[3] * VisW>>
\* worldLandmarks of predictWebcam, in detector index order.
WorldLandmarks(landmarks) == [i \in 1..Len(landmarks) |-> WorldLandmark(landmarks[i])]

\* -------------------------------------------------------- the binding engine
RECURSIVE ClosestLoop(_, _, _, _, _)
\* The nearest-landmark loop of the bind phase from landmark k on; minDist = -1
\* stands for Infinity and closestIndex 0 for -1.
ClosestLoop(position, landmarks, k, minDist, closestIndex) ==
    IF k > Len(landmarks) THEN closestIndex
    ELSE LET dist == distanceToSquared(position, landmarks[k])
         IN  IF minDist = -1 \/ dist < minDist
             THEN ClosestLoop(position, landmarks, k + 1, dist, k)
             ELSE ClosestLoop(position, landmarks, k + 1, minDist, closestIndex)

RECURSIVE ClosestLoopLast(_, _, _, _, _)
\* Variant of the nearest-landmark loop that compares with <=, so that the
\* last of several nearest landmarks wins.
ClosestLoopLast(position, landmarks, k, minDist, closestIndex) ==
    IF k > Len(landmarks) THEN closestIndex
    ELSE LET dist == distanceToSquared(position, landmarks[k])
         IN  IF minDist = -1 \/ dist <= minDist
             THEN ClosestLoopLast(position, landmarks, k + 1, dist, k)
             ELSE ClosestLoopLast(position, landmarks, k + 1, minDist, closestIndex)

\* Variant of BindInstance built on ClosestLoopLast.
BindInstance_LastOnTies(inst, landmarks) ==
    LET closestIndex == ClosestLoopLast(inst.position, landmarks, 1, -1, 0)
    IN  [landmarkIndex |-> closestIndex,
         offset |-> VecSub(inst.position, landmarks[closestIndex]),
         basePos |-> inst.position]

\* The anchor the bind phase stores for one instance.
BindInstance(inst, landmarks) ==
    LET closestIndex == ClosestLoop(inst.position, landmarks, 1, -1, 0)
    IN  [landmarkIndex |-> closestIndex,
         offset |-> VecSub(inst.position, landmarks[closestIndex]),
         basePos |-> inst.position]

\* anchorsRef.current = instanceData.map(...)
BindPhase(instanceData, landmarks) ==
    [idx \in 1..Len(instanceData) |-> BindInstance(instanceData[idx], landmarks)]

\* Variant of UpdateInstance that places the instance on its landmark and
\* forgets the stored offset.
UpdateInstance_NoOffset(anchor, instOriginal, landmarks) ==
    ComposeMatrix(landmarks[anchor.landmarkIndex],
                  instOriginal.normal, instOriginal.scale)

\* The matrix the update phase writes for one anchor.
UpdateInstance(anchor, instOriginal, landmarks) ==
    ComposeMatrix(VecAdd(landmarks[anchor.landmarkIndex], anchor.offset),
                  instOriginal.normal, instOriginal.scale)

\* The instance matrices after the update phase.
UpdatePhase(anchorList, instanceData, landmarks, mats) ==
    [idx \in 1..Len(mats) |->
        IF idx <= Len(anchorList) /\ idx <= Len(instanceData)
        THEN UpdateInstance(anchorList[idx], instanceData[idx], landmarks)
        ELSE mats[idx]]


\* ------------------------------------------------------------ the head pose
\* The detector's landmarks with source indices 33 and 263 (the outer eye
\* corners), 1-based in the model's three-landmark face.
LeftEyeIdx == 3
RightEyeIdx == 1

\* tPos of predictWebcam: the nose landmark mapped to the scene,
\* (targetX, targetY, targetZ).
TargetPosition(landmarks) ==
    <<-((landmarks[NoseIdx][1] - ImgCentre) * VisW),
      -((landmarks[NoseIdx][2] - ImgCentre) * VisH),
      TargetZ>>

\* roll = atan2(pRight.y - pLeft.y, pRight.x - pLeft.x), yaw = dx * 3.5 and
\* pitch = dy * 3.0 are all zero exactly when the eyes are level, the right eye
\* is to the right of the left one and the nose is at the mid-eye point.
HeadUpright(landmarks) ==
    /\ landmarks[RightEyeIdx][2] = landmarks[LeftEyeIdx][2]
    /\ landmarks[RightEyeIdx][1] > landmarks[LeftEyeIdx][1]
    /\ 2 * landmarks[NoseIdx][1] = landmarks[LeftEyeIdx][1] + landmarks[RightEyeIdx][1]
    /\ 2 * landmarks[NoseIdx][2] = landmarks[LeftEyeIdx][2] + landmarks[RightEyeIdx][2]

\* One coordinate of Vector3.lerp(v, alpha) with alpha = num / den, in position
\* units: the step is rounded away from zero, so that repeated lerps reach the
\* target as they do in floating point.
LerpCoord(a, b, num, den) ==
    IF b >= a THEN a + ((b - a) * num + den - 1) \div den
    ELSE a - ((a - b) * num + den - 1) \div den
\* Vector3.lerp
Lerp(a, b, num, den) ==
    <<LerpCoord(a[1], b[1], num, den), LerpCoord(a[2], b[2], num, den),
      LerpCoord(a[3], b[3], num, den)>>

\* smoothState.current.position when a FaceScanner mounts: (0, 0, 0.5).
SmoothStart == <<0, 0, 10>>
\* The position prop of the face group: [0, 0, 0] in AR mode, [0, -0.2, 0]
\* outside it.
GroupPositionProp(ar) == IF ar THEN <<0, 0, 0>> ELSE <<0, -4, 0>>

\* ------------------------------------------------------------------- state
VARIABLES
    config,         \* App: the base MaskConfig
    lastSet,        \* history: the base config a control or a preset last set
    animations,     \* App: the keys whose AnimationDef is active
    renderConfig,   \* App: the derived config MaskInstances receives
    renderIsBase,   \* App: renderConfig is the config object itself
    loopPending,    \* App: the animation loop has an animation frame requested
    scanning,       \* App: the scan modal is open
    faceARMode,     \* App: AR tracking mode
    customMesh,     \* App: the target mesh (NoMesh: the default head)
    uploadPending,  \* App: an OBJ file is being loaded
    faceLandmarks,  \* App: the last LandmarkCloud delivered (Null: undefined)
    faceDetected,   \* FaceScanner: the last detector frame had a face
    instances,      \* MaskInstances: userData.instances, the rest pose
    matrices,       \* MaskInstances: the instance matrices, slot by slot
    anchors,        \* MaskInstances: anchorsRef.current (Null: unbound)
    bindCloud,      \* history: the LandmarkCloud of the last bind phase
    loading,        \* FaceScanner: the detector is being initialised
    error,          \* FaceScanner: the error message (NoError: null)
    inferenceMode,  \* FaceScanner: the delegate shown ("GPU" or "CPU")
    initPending,    \* FaceScanner: the init() promise ("none", "live", "orphan")
    cameraPending,  \* FaceScanner: the getUserMedia promise, likewise
    srcObject,      \* FaceScanner: videoRef.current.srcObject holds the stream
    loadeddataListener, \* FaceScanner: predictWebcam waits for loadeddata
    requestRef,     \* FaceScanner: an animation frame for predictWebcam is requested
    openDetectors,  \* environment: FaceLandmarkers created and not closed
    liveStreams,    \* environment: camera streams with a track not stopped
    sessions,       \* history: FaceScanner mounts so far
    smoothPosition, \* FaceScanner: smoothState.current.position
    groupPosition,  \* App: faceGroupRef.current.position
    meshCount,      \* MaskInstances: meshRef.current.count
    loopI,          \* MaskInstances: the regeneration loop's i (-1: not running)
    samples,        \* history: the candidate coordinates of the current run
    tempObj,        \* MaskInstances: the module's scratch Object3D
    tempColor,      \* MaskInstances: the module's scratch Color
    golden,         \* history: the InstanceSet of the first completed run
    skinned,        \* history: an update phase has used tempObj since the mount
    callArgs,       \* the arguments of the function applied (Null: none)
    callResult      \* what the function returned (Null: not yet applied)

\* The App's design state.
designVars == <<config, lastSet, animations, renderConfig, renderIsBase, loopPending,
                customMesh, uploadPending>>
\* The MaskInstances component.
maskVars == <<instances, matrices, anchors, bindCloud, meshCount>>
\* The internals of a FaceScanner session and its resources.
sessVars == <<loading, error, inferenceMode, initPending, cameraPending, srcObject,
              loadeddataListener, requestRef, openDetectors, liveStreams, sessions>>
\* The head pose: the smoothed pose and the face group it drives.
poseVars == <<smoothPosition, groupPosition>>

\* The regeneration effect run iteration by iteration, with the scratch
\* objects it shares with the update phase.  The effect runs to completion
\* within one step of the App, and each handler overwrites the scratch fields
\* before it reads them, so the steps of the App, of the session and of the
\* pose leave these alone.
placeVars == <<loopI, samples, tempObj, tempColor, golden, skinned>>
\* A function of the math module applied on its own.
callVars == <<callArgs, callResult>>
benchVars == <<placeVars, callVars>>

vars == <<designVars, scanning, faceARMode, faceLandmarks, faceDetected,
          maskVars, sessVars, poseVars, benchVars>>

NoError == "none"
Zones == {"full", "domino", "respirator", "jaw"}
\* The densities the model's density slider can set: its two ends.
DensityInputs == {1, MaxDensity}
\* The keys the Sidebar animates that the model's config holds.
AnimKeys == {"offset"}

\* DEFAULT_CONFIG, with the density scaled to the model's bound.
DEFAULT_CONFIG ==
    [zone |-> "full", offset |-> DefaultOffset, density |-> MaxDensity, symmetry |-> TRUE,
     distribution |-> "spiral", colorMode |-> "depth"]

\* PRESETS (Spike, Cyber, Organic): their zone, density and offset, the
\* densities scaled to the model's bound.  The distribution and color mode a
\* preset sets are drawn by the placement specification (PlacePresets).
PRESETS ==
    { [zone |-> "full", density |-> 1, offset |-> 0],
      [zone |-> "domino", density |-> 1, offset |-> 1],
      [zone |-> "respirator", density |-> MaxDensity, offset |-> 0] }

\* Variant of the regeneration effect that keeps the anchors.
Regenerate_KeepAnchors(cfg, mesh) ==
    /\ anchors' = anchors
    /\ instances' = Generate(cfg, mesh)
    /\ matrices' = RestMatrices(instances')
    /\ meshCount' = Len(instances')
    /\ bindCloud' = bindCloud

\* The regeneration effect of MaskInstances for (cfg, mesh): it drops the
\* anchors, rebuilds the instance list and writes the rest matrices.
Regenerate(cfg, mesh) ==
    /\ anchors' = Null
    /\ instances' = Generate(cfg, mesh)
    /\ matrices' = RestMatrices(instances')
    /\ meshCount' = Len(instances')
    /\ bindCloud' = bindCloud

\* The state after the App mounted.
Init ==
    /\ config = DEFAULT_CONFIG
    /\ lastSet = DEFAULT_CONFIG
    /\ animations = {}
    /\ renderConfig = DEFAULT_CONFIG
    /\ renderIsBase = TRUE
    /\ loopPending = FALSE
    /\ scanning = FALSE
    /\ faceARMode = FALSE
    /\ customMesh = NoMesh
    /\ uploadPending = FALSE
    /\ faceLandmarks = Null
    /\ faceDetected = FALSE
    /\ instances = Generate(DEFAULT_CONFIG, NoMesh)
    /\ matrices = RestMatrices(instances)
    /\ anchors = Null
    /\ bindCloud = Null
    /\ loading = FALSE
    /\ error = NoError
    /\ inferenceMode = "CPU"
    /\ initPending = "none"
    /\ cameraPending = "none"
    /\ srcObject = FALSE
    /\ loadeddataListener = FALSE
    /\ requestRef = FALSE
    /\ openDetectors = 0
    /\ liveStreams = 0
    /\ sessions = 0
    /\ smoothPosition = SmoothStart
    /\ groupPosition = GroupPositionProp(FALSE)
    /\ meshCount = Len(instances)
    /\ loopI = -1
    /\ samples = <<>>
    /\ tempObj = FreshObject3D
    /\ tempColor = FreshColor
    /\ golden = Null
    /\ skinned = FALSE
    /\ callArgs = Null
    /\ callResult = Null

\* ----------------------------------------------------------------- the App
\* The Sidebar is rendered (and the design editable) only outside both modes.
SidebarVisible == ~scanning /\ ~faceARMode

\* val = anim.min + norm * (anim.max - anim.min) with norm = k / NormSteps, in
\* offset ticks (rounded down); min and max are the slider's ends, which the
\* Sidebar passes when it toggles an animation.
AnimValue(k) ==
    OffsetSliderMin + (k * (OffsetSliderMax - OffsetSliderMin)) \div NormSteps

\* nextConfig of the animation loop: the base config with every active
\* numeric field replaced by its animated value.
NextConfig(cfg, anims, k) ==
    IF "offset" \in anims THEN [cfg EXCEPT !.offset = AnimValue(k)] ELSE cfg

\* hasActiveAnim: some active animation is keyed by a numeric config field.
HasActiveAnim(anims) == anims \cap AnimKeys # {}

\* The animation effect, which runs when animations or config changed, given
\* the new values: it requests the loop when some animation is active and
\* otherwise resets renderConfig to the base config. configReplaced says that
\* the config object is a new one.  setRenderConfig with the object the state
\* already holds renders nothing, so MaskInstances regenerates only when the
\* config object it receives changes.
AnimationEffect(newConfig, newAnims, configReplaced) ==
    IF newAnims # {}
    THEN /\ loopPending' = TRUE
         /\ renderConfig' = renderConfig
         /\ renderIsBase' = (renderIsBase /\ ~configReplaced)
         /\ UNCHANGED maskVars
    ELSE /\ loopPending' = FALSE
         /\ renderConfig' = newConfig
         /\ renderIsBase' = TRUE
         /\ IF renderIsBase /\ ~configReplaced
            THEN UNCHANGED maskVars
            ELSE Regenerate(newConfig, customMesh)

\* handleUpdateConfig(key, value) from a Sidebar control.
UpdateConfig(key, value) ==
    /\ SidebarVisible
    /\ config' = [config EXCEPT ![key] = value]
    /\ lastSet' = config'
    /\ AnimationEffect(config', animations, TRUE)
    /\ UNCHANGED <<animations, scanning, faceARMode, customMesh, uploadPending,
                   faceLandmarks, faceDetected, sessVars, poseVars,
                   benchVars>>

\* handleUpdateAnimation(key, {active: !isAnimating, ...}) from a Sidebar control.
ToggleAnimation(key) ==
    /\ SidebarVisible
    /\ animations' = IF key \in animations THEN animations \ {key}
                     ELSE animations \cup {key}
    /\ AnimationEffect(config, animations', FALSE)
    /\ UNCHANGED <<config, lastSet, scanning, faceARMode, customMesh, uploadPending,
                   faceLandmarks, faceDetected, sessVars, poseVars,
                   benchVars>>

\* handlePreset(presetConfig)
ApplyPreset(p) ==
    /\ SidebarVisible
    /\ config' = [config EXCEPT !.zone = p.zone, !.density = p.density,
                                !.offset = p.offset]
    /\ lastSet' = config'
    /\ animations' = {}
    /\ AnimationEffect(config', {}, TRUE)
    /\ UNCHANGED <<scanning, faceARMode, customMesh, uploadPending,
                   faceLandmarks, faceDetected, sessVars, poseVars,
                   benchVars>>

\* Variant of the animation loop that stores the animated values in the base
\* config as well.
AnimTick_WritesBase(k) ==
    /\ loopPending
    /\ IF HasActiveAnim(animations)
       THEN /\ renderConfig' = NextConfig(config, animations, k)
            /\ config' = renderConfig'
            /\ renderIsBase' = FALSE
            /\ loopPending' = TRUE
            /\ Regenerate(NextConfig(config, animations, k), customMesh)
       ELSE /\ renderConfig' = config
            /\ config' = config
            /\ renderIsBase' = TRUE
            /\ loopPending' = FALSE
            /\ Regenerate(config, customMesh)
    /\ UNCHANGED <<lastSet, animations, scanning, faceARMode, customMesh,
                   uploadPending, faceLandmarks, faceDetected, sessVars, poseVars,
                   benchVars>>

\* Variant of the animation loop that clones the render config of the
\* previous frame instead of the base config.
AnimTick_FromRender(k) ==
    /\ loopPending
    /\ IF HasActiveAnim(animations)
       THEN /\ renderConfig' = NextConfig(renderConfig, animations, k)
            /\ renderIsBase' = FALSE
            /\ loopPending' = TRUE
            /\ Regenerate(NextConfig(renderConfig, animations, k), customMesh)
       ELSE /\ renderConfig' = config
            /\ renderIsBase' = TRUE
            /\ loopPending' = FALSE
            /\ Regenerate(config, customMesh)
    /\ UNCHANGED <<config, lastSet, animations, scanning, faceARMode, customMesh,
                   uploadPending, faceLandmarks, faceDetected, sessVars, poseVars,
                   benchVars>>

\* One run of the animation loop, at the sine sample k: it sets renderConfig
\* to a fresh nextConfig, which MaskInstances receives as a changed config.
AnimTick(k) ==
    /\ loopPending
    /\ IF HasActiveAnim(animations)
       THEN /\ renderConfig' = NextConfig(config, animations, k)
            /\ renderIsBase' = FALSE
            /\ loopPending' = TRUE
            /\ Regenerate(NextConfig(config, animations, k), customMesh)
       ELSE /\ renderConfig' = config
            /\ renderIsBase' = TRUE
            /\ loopPending' = FALSE
            /\ Regenerate(config, customMesh)
    /\ UNCHANGED <<config, lastSet, animations, scanning, faceARMode, customMesh,
                   uploadPending, faceLandmarks, faceDetected, sessVars, poseVars,
                   benchVars>>

\* handleFileUpload: the OBJ loader starts.
StartUpload ==
    /\ SidebarVisible
    /\ uploadPending' = TRUE
    /\ UNCHANGED <<config, lastSet, animations, renderConfig, renderIsBase, loopPending,
                   scanning, faceARMode, customMesh, faceLandmarks, faceDetected,
                   maskVars, sessVars, poseVars,
                   benchVars>>

\* The loader's callback: the first mesh of the file, if it has one, becomes
\* the target mesh.
UploadLoaded(hasMesh) ==
    /\ uploadPending
    /\ uploadPending' = FALSE
    /\ IF hasMesh
       THEN /\ customMesh' = "obj"
            /\ Regenerate(renderConfig, "obj")
       ELSE UNCHANGED <<customMesh, maskVars>>
    /\ UNCHANGED <<config, lastSet, animations, renderConfig, renderIsBase, loopPending,
                   scanning, faceARMode, faceLandmarks, faceDetected,
                   sessVars, poseVars,
                   benchVars>>

\* The "Initialize AR Link" button: a FaceScanner in ar mode is mounted.
EnterAR ==
    /\ SidebarVisible
    /\ faceARMode' = TRUE
    /\ faceDetected' = FALSE
    /\ UNCHANGED <<designVars, scanning, faceLandmarks, maskVars, sessVars, poseVars,
                   benchVars>>

\* The AR runner's onCancel.
CancelAR ==
    /\ faceARMode
    /\ faceARMode' = FALSE
    /\ faceLandmarks' = Null
    /\ faceDetected' = FALSE
    /\ UNCHANGED <<designVars, scanning, maskVars, sessVars, poseVars,
                   benchVars>>

\* Variant of handleFaceTrackingUpdate that stores the landmarks it is given
\* whether or not a face was detected.
handleFaceTrackingUpdate_Unguarded(detected, landmarks, held) == landmarks

\* handleFaceTrackingUpdate(matrix, detected, landmarks): the landmarks the
\* App holds afterwards.
handleFaceTrackingUpdate(detected, landmarks, held) ==
    IF detected /\ landmarks # Null THEN landmarks ELSE held

\* Variant of predictWebcam's delivery in which the render it causes hands
\* MaskInstances a fresh config object, so that every delivery regenerates.
PredictWebcamAR_Regenerates(h) ==
    /\ faceARMode
    /\ faceDetected' = TRUE
    /\ faceLandmarks' = Some(WorldLandmarks(DetectorFrame(h)))
    /\ Regenerate(renderConfig, customMesh)
    /\ UNCHANGED <<designVars, scanning, faceARMode, sessVars, poseVars,
                   benchVars>>

\* predictWebcam in ar mode on a detector frame with a face, the head shifted
\* by h: it ends in onFaceUpdate(matrix, true, worldLandmarks).
PredictWebcamAR(h) ==
    /\ faceARMode
    /\ faceDetected' = TRUE
    /\ faceLandmarks' = handleFaceTrackingUpdate(
           TRUE, Some(WorldLandmarks(DetectorFrame(h))), faceLandmarks)
    /\ UNCHANGED <<designVars, scanning, faceARMode, maskVars, sessVars, poseVars,
                   benchVars>>

\* predictWebcam in ar mode on a detector frame without a face: it ends in
\* onFaceUpdate(new Matrix4(), false, undefined).
PredictWebcamARNoFace ==
    /\ faceARMode
    /\ faceDetected' = FALSE
    /\ faceLandmarks' = handleFaceTrackingUpdate(FALSE, Null, faceLandmarks)
    /\ UNCHANGED <<designVars, scanning, faceARMode, maskVars, sessVars, poseVars,
                   benchVars>>

\* ------------------------------------------------- MaskInstances.useFrame
\* The landmarks prop: landmarks={faceARMode ? faceLandmarks : undefined}
LandmarksProp == IF faceARMode THEN faceLandmarks ELSE Null

\* Variant of the frame tick whose update phase binds again on every frame.
FrameTick_Rebind ==
    /\ IF LandmarksProp = Null \/ Len(Get(LandmarksProp)) = 0
       THEN UNCHANGED <<anchors, matrices, bindCloud>>
       ELSE IF anchors = Null
       THEN /\ anchors' = Some(BindPhase(instances, Get(LandmarksProp)))
            /\ bindCloud' = LandmarksProp
            /\ UNCHANGED matrices
       ELSE /\ matrices' = UpdatePhase(Get(anchors), instances, Get(LandmarksProp), matrices)
            /\ anchors' = Some(BindPhase(instances, Get(LandmarksProp)))
            /\ bindCloud' = LandmarksProp
    /\ UNCHANGED <<instances, meshCount>>

\* Variant of the frame tick whose update phase moves the instance itself:
\* it adds into instOriginal.position instead of the scratch object.
FrameTick_MovesRest ==
    /\ IF LandmarksProp = Null \/ Len(Get(LandmarksProp)) = 0
       THEN UNCHANGED <<anchors, matrices, bindCloud, instances>>
       ELSE IF anchors = Null
       THEN /\ anchors' = Some(BindPhase(instances, Get(LandmarksProp)))
            /\ bindCloud' = LandmarksProp
            /\ UNCHANGED <<matrices, instances>>
       ELSE /\ matrices' = UpdatePhase(Get(anchors), instances, Get(LandmarksProp), matrices)
            /\ instances' = [k \in 1..Len(instances) |->
                   IF k <= Len(Get(anchors))
                   THEN [instances[k] EXCEPT !.position = matrices'[k].position]
                   ELSE instances[k]]
            /\ UNCHANGED <<anchors, bindCloud>>
    /\ UNCHANGED meshCount

\* The body of one frame tick of MaskInstances: nothing without landmarks, the
\* bind phase (and nothing else) when there are no anchors, the update phase
\* otherwise.
FrameTick ==
    /\ IF LandmarksProp = Null \/ Len(Get(LandmarksProp)) = 0
       THEN UNCHANGED <<anchors, matrices, bindCloud>>
       ELSE IF anchors = Null
       THEN /\ anchors' = Some(BindPhase(instances, Get(LandmarksProp)))
            /\ bindCloud' = LandmarksProp
            /\ UNCHANGED matrices
       ELSE /\ matrices' = UpdatePhase(Get(anchors), instances, Get(LandmarksProp), matrices)
            /\ UNCHANGED <<anchors, bindCloud>>
    /\ UNCHANGED <<instances, meshCount>>

\* useFrame of MaskInstances in the render loop.
UseFrame ==
    /\ FrameTick
    /\ UNCHANGED <<designVars, scanning, faceARMode, faceLandmarks, faceDetected,
                   sessVars, poseVars,
                   benchVars>>

Next ==
    \/ \E z \in Zones : UpdateConfig("zone", z)
    \/ \E d \in DensityInputs : UpdateConfig("density", d)
    \/ UpdateConfig("symmetry", ~config.symmetry)
    \/ \E key \in AnimKeys : ToggleAnimation(key)
    \/ \E p \in PRESETS : ApplyPreset(p)
    \/ \E k \in 0..NormSteps : AnimTick(k)
    \/ StartUpload
    \/ \E hasMesh \in BOOLEAN : UploadLoaded(hasMesh)
    \/ EnterAR
    \/ CancelAR
    \/ \E h \in HeadShifts : PredictWebcamAR(h)
    \/ PredictWebcamARNoFace
    \/ UseFrame

Spec == Init /\ [][Next]_vars

\* ------------------------------------------------- the FaceScanner session
\* A FaceScanner is mounted while the scan modal is open or AR mode is on.
Mounted == scanning \/ faceARMode

\* A promise of an unmounted FaceScanner is an orphan: it still settles.
Orphaned(promise) == IF promise = "live" THEN "orphan" ELSE promise

\* The detector frames of a session have the head at the image centre.
SessionFrame == DetectorFrame(0)

\* The App opens the scan modal (onStartScan) or AR mode (the AR button) and
\* a FaceScanner mounts: fresh state and refs, init() called; the camera
\* effect does nothing while loading.  A new FaceScanner is mounted only once
\* the promises of the previous one have settled.
MountScanner(ar) ==
    /\ SidebarVisible
    /\ sessions < MaxSessions
    /\ initPending = "none" /\ cameraPending = "none"
    /\ scanning' = ~ar
    /\ faceARMode' = ar
    /\ faceDetected' = FALSE
    /\ loading' = TRUE
    /\ error' = NoError
    /\ inferenceMode' = "CPU"
    /\ initPending' = "live"
    /\ srcObject' = FALSE
    /\ loadeddataListener' = FALSE
    /\ requestRef' = FALSE
    /\ sessions' = sessions + 1
    /\ smoothPosition' = SmoothStart
    /\ groupPosition' = GroupPositionProp(ar)
    /\ UNCHANGED <<designVars, faceLandmarks, maskVars, cameraPending,
                   openDetectors, liveStreams,
                   benchVars>>

\* What init() can meet: the vision assets fail to load ("assets"), the
\* FaceLandmarker is created on the GPU ("GPU"), the GPU creation fails and
\* the CPU creation succeeds ("CPU"), or both creations fail ("delegates").
InitOutcomes == {"assets", "GPU", "CPU", "delegates"}

\* Variant of init() without the CPU fallback: a GPU failure is an error.
InitSettled_NoFallback(outcome) ==
    /\ initPending # "none"
    /\ initPending' = "none"
    /\ openDetectors' = IF outcome = "GPU" THEN openDetectors + 1 ELSE openDetectors
    /\ IF initPending = "live"
       THEN /\ loading' = FALSE
            /\ error' = IF outcome = "GPU" THEN NoError ELSE "Neural Engine failure."
            /\ inferenceMode' = IF outcome = "GPU" THEN "GPU" ELSE inferenceMode
            /\ cameraPending' = IF outcome = "GPU" /\ ~srcObject THEN "live" ELSE cameraPending
       ELSE UNCHANGED <<loading, error, inferenceMode, cameraPending>>
    /\ UNCHANGED <<designVars, scanning, faceARMode, faceLandmarks, faceDetected,
                   maskVars, srcObject, loadeddataListener, requestRef,
                   liveStreams, sessions, poseVars,
                   benchVars>>

\* init() settles.  With the outcome "GPU" or "CPU" a FaceLandmarker was
\* created (on the GPU or, after the fallback, on the CPU); a mounted
\* FaceScanner records the delegate, stores the landmarker and leaves
\* loading, and the camera effect then calls getUserMedia.  With the other
\* outcomes the outer catch makes a mounted FaceScanner show "Neural Engine
\* failure." and the camera effect does nothing.  No path closes the
\* FaceLandmarker.
InitSettled(outcome) ==
    LET ok == outcome \in {"GPU", "CPU"} IN
    /\ initPending # "none"
    /\ initPending' = "none"
    /\ openDetectors' = IF ok THEN openDetectors + 1 ELSE openDetectors
    /\ IF initPending = "live"
       THEN /\ loading' = FALSE
            /\ error' = IF ok THEN NoError ELSE "Neural Engine failure."
            /\ inferenceMode' = IF ok THEN outcome ELSE inferenceMode
            /\ cameraPending' = IF ok /\ ~srcObject THEN "live" ELSE cameraPending
       ELSE UNCHANGED <<loading, error, inferenceMode, cameraPending>>
    /\ UNCHANGED <<designVars, scanning, faceARMode, faceLandmarks, faceDetected,
                   maskVars, srcObject, loadeddataListener, requestRef,
                   liveStreams, sessions, poseVars,
                   benchVars>>

\* The getUserMedia promise settles.  With ok there is a stream with live
\* tracks; it is attached (and predictWebcam set to wait for loadeddata) only
\* if videoRef.current exists, that is if the FaceScanner is still mounted.
\* Without ok a mounted FaceScanner shows "Optical sensor access denied.".
CameraSettled(ok) ==
    /\ cameraPending # "none"
    /\ cameraPending' = "none"
    /\ liveStreams' = IF ok THEN liveStreams + 1 ELSE liveStreams
    /\ IF cameraPending = "live"
       THEN /\ srcObject' = ok
            /\ loadeddataListener' = ok
            /\ error' = IF ok THEN error ELSE "Optical sensor access denied."
       ELSE UNCHANGED <<srcObject, loadeddataListener, error>>
    /\ UNCHANGED <<designVars, scanning, faceARMode, faceLandmarks, faceDetected,
                   maskVars, loading, inferenceMode, initPending, requestRef,
                   openDetectors, sessions, poseVars,
                   benchVars>>

\* The smoothed head position after a frame whose nose target is that of the
\* landmarks: smoothState.current.position.lerp(tPos, 0.4).
SmoothedPosition(landmarks) == Lerp(smoothPosition, TargetPosition(landmarks), 2, 5)
\* faceGroupRef.current.position.lerp(pos, 0.8) in handleFaceTrackingUpdate,
\* pos being the position of the matrix predictWebcam passes.
TrackedGroupPosition(landmarks) == Lerp(groupPosition, SmoothedPosition(landmarks), 4, 5)

\* predictWebcam on a detector frame: run by the loadeddata event or by the
\* animation frame it requested.  It records whether a face was found and
\* requests the next animation frame; in ar mode it also moves the smoothed
\* pose and calls onFaceUpdate.
predictWebcam(face) ==
    /\ Mounted
    /\ loadeddataListener \/ requestRef
    /\ loadeddataListener' = FALSE
    /\ requestRef' = TRUE
    /\ faceDetected' = face
    /\ IF faceARMode /\ face
       THEN /\ smoothPosition' = SmoothedPosition(SessionFrame)
            /\ groupPosition' = TrackedGroupPosition(SessionFrame)
            /\ faceLandmarks' = handleFaceTrackingUpdate(
                   TRUE, Some(WorldLandmarks(SessionFrame)), faceLandmarks)
       ELSE /\ faceLandmarks' = handleFaceTrackingUpdate(FALSE, Null, faceLandmarks)
            /\ UNCHANGED poseVars
    /\ UNCHANGED <<designVars, scanning, faceARMode, maskVars, loading, error,
                   inferenceMode, initPending, cameraPending, srcObject, openDetectors,
                   liveStreams, sessions,
                   benchVars>>

\* The FaceScanner unmounts: the camera effect's cleanup cancels the requested
\* animation frame, the cleanup effect stops the tracks of the stream
\* attached to the video element, if one is attached; pending promises stay
\* pending.
Unmount ==
    /\ requestRef' = FALSE
    /\ loadeddataListener' = FALSE
    /\ srcObject' = FALSE
    /\ liveStreams' = IF srcObject THEN liveStreams - 1 ELSE liveStreams
    /\ initPending' = Orphaned(initPending)
    /\ cameraPending' = Orphaned(cameraPending)
    /\ loading' = FALSE
    /\ error' = NoError
    /\ inferenceMode' = "CPU"
    /\ faceDetected' = FALSE
    /\ UNCHANGED <<openDetectors, sessions>>

\* onCancel (CANCEL, RETURN or TERMINATE SESSION): the scan modal's buttons
\* are not shown while loading, the AR runner's button always is.
CancelSession ==
    /\ Mounted
    /\ faceARMode \/ ~loading
    /\ scanning' = FALSE
    /\ faceARMode' = FALSE
    /\ faceLandmarks' = IF faceARMode THEN Null ELSE faceLandmarks
    /\ groupPosition' = GroupPositionProp(FALSE)
    /\ Unmount
    /\ UNCHANGED <<designVars, maskVars, smoothPosition,
                   benchVars>>

\* handleCapture with a cached result, then handleFaceCapture(geometry): the
\* captured cloud becomes the target mesh and the scan modal closes.
FaceCapture ==
    /\ scanning
    /\ ~loading
    /\ faceDetected
    /\ customMesh' = "scan"
    /\ scanning' = FALSE
    /\ Regenerate(renderConfig, "scan")
    /\ Unmount
    /\ UNCHANGED <<config, lastSet, animations, renderConfig, renderIsBase, loopPending,
                   uploadPending, faceARMode, faceLandmarks, poseVars,
                   benchVars>>

SessionNext ==
    \/ \E ar \in BOOLEAN : MountScanner(ar)
    \/ \E outcome \in InitOutcomes : InitSettled(outcome)
    \/ \E ok \in BOOLEAN : CameraSettled(ok)
    \/ \E face \in BOOLEAN : predictWebcam(face)
    \/ CancelSession
    \/ FaceCapture
    \/ UseFrame

\* The FaceScanner sessions of an App whose design is not edited, with the
\* frame ticks of MaskInstances.
SessionSpec == Init /\ [][SessionNext]_vars

\* ------------------------------------------------------ the tracked pose
\* The detector frames of the model are upright, so tRot is the identity in
\* every frame, and they have fewer than 455 landmarks, so targetScale is 1:
\* the face group keeps its rotation and scale and only its position moves.

\* The AR button, with the FaceScanner's fresh smoothState and the face
\* group's position prop of AR mode.
EnterARPose ==
    /\ SidebarVisible
    /\ faceARMode' = TRUE
    /\ faceDetected' = FALSE
    /\ smoothPosition' = SmoothStart
    /\ groupPosition' = GroupPositionProp(TRUE)
    /\ UNCHANGED <<designVars, scanning, faceLandmarks, maskVars, sessVars,
                   benchVars>>

\* The AR runner's onCancel, with the face group's position prop outside AR.
CancelARPose ==
    /\ faceARMode
    /\ faceARMode' = FALSE
    /\ faceLandmarks' = Null
    /\ faceDetected' = FALSE
    /\ groupPosition' = GroupPositionProp(FALSE)
    /\ UNCHANGED <<designVars, scanning, maskVars, sessVars, smoothPosition,
                   benchVars>>

\* predictWebcam in ar mode on a detector frame with a face, the head shifted
\* by h: the smoothed pose moves towards the nose target, the face group
\* towards the smoothed pose, and the cloud is delivered.
PredictWebcamPose(h) ==
    /\ faceARMode
    /\ HeadUpright(DetectorFrame(h))
    /\ faceDetected' = TRUE
    /\ smoothPosition' = SmoothedPosition(DetectorFrame(h))
    /\ groupPosition' = TrackedGroupPosition(DetectorFrame(h))
    /\ faceLandmarks' = handleFaceTrackingUpdate(
           TRUE, Some(WorldLandmarks(DetectorFrame(h))), faceLandmarks)
    /\ UNCHANGED <<designVars, scanning, faceARMode, maskVars, sessVars,
                   benchVars>>

PoseNext ==
    \/ EnterARPose
    \/ CancelARPose
    \/ \E h \in HeadShifts : PredictWebcamPose(h)
    \/ PredictWebcamARNoFace
    \/ UseFrame

\* AR sessions on the default design, with the pose of the face group.
PoseSpec == Init /\ [][PoseNext]_vars

\* ------------------------------------------------- the regeneration effect
DistributionTypes == {"grid", "spiral", "random"}
ColorModes == {"normal", "depth", "solid"}
\* Largest density of the configs the placement specification draws.
MaxPlaceDensity == 8
\* The target meshes of the placement specification ("empty": a geometry
\* with no vertices).
PlaceMeshes == {NoMesh, "scan", "obj", "empty"}

\* The scenario density = 100, distribution = grid, zone = full, symmetry off.
GridScenario ==
    [zone |-> "full", offset |-> DefaultOffset, density |-> 100, symmetry |-> FALSE,
     distribution |-> "grid", colorMode |-> "depth"]

\* The scenario density = 64, distribution = grid, zone = domino, symmetry on.
OcularScenario ==
    [zone |-> "domino", offset |-> DefaultOffset, density |-> 64, symmetry |-> TRUE,
     distribution |-> "grid", colorMode |-> "solid"]

\* The MaskConfigs the placement specification draws.
PlaceConfigs ==
    [zone : Zones, offset : {DefaultOffset}, density : 0..MaxPlaceDensity,
     symmetry : BOOLEAN, distribution : DistributionTypes, colorMode : ColorModes]

\* The state of the App, the session and the pose outside any mode, with no
\* animation, as after the App mounted.
AppAtRest ==
    /\ animations = {}
    /\ renderIsBase = TRUE
    /\ loopPending = FALSE
    /\ scanning = FALSE
    /\ faceARMode = FALSE
    /\ uploadPending = FALSE
    /\ faceLandmarks = Null
    /\ faceDetected = FALSE
    /\ loading = FALSE
    /\ error = NoError
    /\ inferenceMode = "CPU"
    /\ initPending = "none"
    /\ cameraPending = "none"
    /\ srcObject = FALSE
    /\ loadeddataListener = FALSE
    /\ requestRef = FALSE
    /\ openDetectors = 0
    /\ liveStreams = 0
    /\ sessions = 0
    /\ smoothPosition = SmoothStart
    /\ groupPosition = GroupPositionProp(FALSE)

\* MaskInstances mounted with a config and a target mesh, before its
\* regeneration effect ran for the first time.
PlaceInit ==
    /\ \/ config \in PlaceConfigs /\ customMesh \in PlaceMeshes
       \/ config \in {GridScenario, OcularScenario} /\ customMesh = NoMesh
    /\ lastSet = config
    /\ renderConfig = config
    /\ AppAtRest
    /\ instances = <<>>
    /\ matrices = <<>>
    /\ anchors = Null
    /\ bindCloud = Null
    /\ meshCount = 0
    /\ loopI = -1
    /\ samples = <<>>
    /\ tempObj = FreshObject3D
    /\ tempColor = FreshColor
    /\ golden = Null
    /\ skinned = FALSE
    /\ callArgs = Null
    /\ callResult = Null

\* The variables a run of the regeneration effect leaves alone.
placeFrame == <<designVars, scanning, faceARMode, faceLandmarks, faceDetected,
                sessVars, poseVars, callVars>>

\* The regeneration effect starts: the anchors are dropped, userData.instances
\* is emptied, idx = 0 and i = 0.
RegenerateStart ==
    /\ loopI = -1
    /\ anchors' = Null
    /\ instances' = <<>>
    /\ samples' = <<>>
    /\ loopI' = 0
    /\ UNCHANGED <<matrices, bindCloud, meshCount, tempObj, tempColor, golden, skinned,
                   placeFrame>>

\* setMatrixAt(idx, ...) for the instances an iteration places: they go to
\* the slots after the idx instances placed before.
WriteSlots(mats, idx, placed) ==
    [k \in 1..Max(Len(mats), idx + Len(placed)) |->
        IF k > idx /\ k <= idx + Len(placed) THEN placed[k - idx].matrix ELSE mats[k]]

\* What one iteration of the generation loop leaves, body being the outcome
\* of the loop body.
CommitIteration(body) ==
    /\ instances' = instances \o body.placed
    /\ matrices' = WriteSlots(matrices, Len(instances), body.placed)
    /\ samples' = Append(samples, [uN |-> body.sample.uN, vN |-> body.sample.vN,
                                   den |-> body.sample.den,
                                   placed |-> body.placed # <<>>])
    /\ tempObj' = body.tempObj
    /\ tempColor' = body.tempColor

\* One iteration of the generation loop.
RegenerateStep ==
    /\ loopI >= 0
    /\ loopI < renderConfig.density
    /\ CommitIteration(LoopBody(renderConfig, customMesh, IdentityMatrix, loopI,
                                tempObj, tempColor))
    /\ loopI' = loopI + 1
    /\ UNCHANGED <<anchors, bindCloud, meshCount, golden, skinned, placeFrame>>

\* Variant of the end of the effect that never lowers meshRef.current.count.
RegenerateFinish_StaleCount ==
    /\ loopI >= 0
    /\ loopI >= renderConfig.density
    /\ meshCount' = Max(meshCount, Len(instances))
    /\ matrices' = SubSeq(matrices, 1, Len(instances))
    /\ loopI' = -1
    /\ golden' = IF golden = Null THEN Some(instances) ELSE golden
    /\ UNCHANGED <<instances, samples, anchors, bindCloud, tempObj, tempColor, skinned,
                   placeFrame>>

\* The loop is over: meshRef.current.count = idx.  matrices keeps the slots
\* the mesh renders.
RegenerateFinish ==
    /\ loopI >= 0
    /\ loopI >= renderConfig.density
    /\ meshCount' = Len(instances)
    /\ matrices' = SubSeq(matrices, 1, Len(instances))
    /\ loopI' = -1
    /\ golden' = IF golden = Null THEN Some(instances) ELSE golden
    /\ UNCHANGED <<instances, samples, anchors, bindCloud, tempObj, tempColor, skinned,
                   placeFrame>>

\* tempObj after the update phase ran over the anchors: every iteration sets
\* its position, scale and rotation and updates its matrix.
ScratchAfterUpdate(anchorList, instanceData, landmarks, obj) ==
    IF Len(anchorList) = 0 THEN obj
    ELSE LET idx == Len(anchorList)
             anchor == anchorList[idx]
             instOriginal == instanceData[idx]
         IN  updateMatrix([obj EXCEPT
                 !.position = VecAdd(landmarks[anchor.landmarkIndex], anchor.offset),
                 !.scale = instOriginal.scale,
                 !.quaternion = setFromUnitVectors(instOriginal.normal)])

\* Variant of the frame tick whose bind phase falls through to the update
\* phase, which then runs on the table just built.
SkinFrame_BindThenUpdate(h) ==
    /\ loopI = -1
    /\ golden # Null
    /\ LET landmarks == WorldLandmarks(DetectorFrame(h))
       IN  IF anchors = Null
           THEN /\ anchors' = Some(BindPhase(instances, landmarks))
                /\ bindCloud' = Some(landmarks)
                /\ matrices' = UpdatePhase(Get(anchors'), instances, landmarks, matrices)
                /\ tempObj' = ScratchAfterUpdate(Get(anchors'), instances, landmarks, tempObj)
                /\ skinned' = (skinned \/ Len(Get(anchors')) > 0)
           ELSE /\ matrices' = UpdatePhase(Get(anchors), instances, landmarks, matrices)
                /\ tempObj' = ScratchAfterUpdate(Get(anchors), instances, landmarks, tempObj)
                /\ skinned' = (skinned \/ Len(Get(anchors)) > 0)
                /\ UNCHANGED <<anchors, bindCloud>>
    /\ UNCHANGED <<instances, meshCount, loopI, samples, tempColor, golden, placeFrame>>

\* One frame tick of MaskInstances between two runs of the effect, the
\* landmarks prop being the cloud of a detector frame with the head shifted by
\* h: the bind phase, or the update phase, which also uses tempObj.
SkinFrame(h) ==
    /\ loopI = -1
    /\ golden # Null
    /\ LET landmarks == WorldLandmarks(DetectorFrame(h))
       IN  IF anchors = Null
           THEN /\ anchors' = Some(BindPhase(instances, landmarks))
                /\ bindCloud' = Some(landmarks)
                /\ UNCHANGED <<matrices, tempObj, skinned>>
           ELSE /\ matrices' = UpdatePhase(Get(anchors), instances, landmarks, matrices)
                /\ tempObj' = ScratchAfterUpdate(Get(anchors), instances, landmarks, tempObj)
                /\ skinned' = (skinned \/ Len(Get(anchors)) > 0)
                /\ UNCHANGED <<anchors, bindCloud>>
    /\ UNCHANGED <<instances, meshCount, loopI, samples, tempColor, golden, placeFrame>>

\* PRESETS with every field of the model's config they set, the densities
\* scaled to the placement specification's bound.
PlacePresets ==
    { [zone |-> "full", density |-> 5, offset |-> 0, distribution |-> "spiral",
       colorMode |-> "depth"],
      [zone |-> "domino", density |-> 3, offset |-> 1, distribution |-> "grid",
       colorMode |-> "solid"],
      [zone |-> "respirator", density |-> MaxPlaceDensity, offset |-> 0,
       distribution |-> "random", colorMode |-> "normal"] }

\* handlePreset(p) between two runs: the preset's fields are merged into the
\* config, and the regeneration effect starts for the new config with the
\* scratch objects as the earlier work left them.
PresetRegenerate(p) ==
    /\ loopI = -1
    /\ golden # Null
    /\ config' = [config EXCEPT !.zone = p.zone, !.density = p.density,
                                !.offset = p.offset, !.distribution = p.distribution,
                                !.colorMode = p.colorMode]
    /\ lastSet' = config'
    /\ config' # config
    /\ renderConfig' = config'
    /\ anchors' = Null
    /\ instances' = <<>>
    /\ samples' = <<>>
    /\ loopI' = 0
    /\ golden' = Null
    /\ UNCHANGED <<animations, renderIsBase, loopPending, customMesh, uploadPending,
                   scanning, faceARMode, faceLandmarks, faceDetected, sessVars, poseVars,
                   callVars, matrices, bindCloud, meshCount, tempObj, tempColor, skinned>>

PlaceNext ==
    \/ RegenerateStart
    \/ RegenerateStep
    \/ RegenerateFinish
    \/ \E h \in HeadShifts : SkinFrame(h)
    \/ \E p \in PlacePresets : PresetRegenerate(p)

\* Runs of the regeneration effect of a mounted MaskInstances, with frame
\* ticks in between.
PlacementSpec == PlaceInit /\ [][PlaceNext]_vars

\* ------------------------------------------------- the math module, applied
\* The App as mounted with no instance generated: the state in which a
\* function of the math module is applied on its own.
MathInit ==
    /\ config = DEFAULT_CONFIG
    /\ lastSet = DEFAULT_CONFIG
    /\ renderConfig = DEFAULT_CONFIG
    /\ customMesh = NoMesh
    /\ AppAtRest
    /\ instances = <<>>
    /\ matrices = <<>>
    /\ anchors = Null
    /\ bindCloud = Null
    /\ meshCount = 0
    /\ loopI = -1
    /\ samples = <<>>
    /\ tempObj = FreshObject3D
    /\ tempColor = FreshColor
    /\ golden = Null
    /\ skinned = FALSE
    /\ callResult = Null

\* What applying a function of the math module leaves alone.
mathFrame == <<designVars, scanning, faceARMode, faceLandmarks, faceDetected, maskVars,
               sessVars, poseVars, placeVars, callArgs>>

\* The coordinates checkZone is applied to are the multiples of 0.05 up to
\* ZoneReach of them on either side of 0, in hundredths.
ZoneReach == 24
ZoneCoords == {5 * k : k \in (-ZoneReach)..ZoneReach}

ZoneInit ==
    /\ MathInit
    /\ callArgs \in [u : ZoneCoords, v : ZoneCoords, zone : Zones]

\* checkZone(u, v, zone) is applied.
CallCheckZone ==
    /\ callResult = Null
    /\ callResult' = Some(checkZone(callArgs.u, callArgs.v, 100, callArgs.zone))
    /\ UNCHANGED mathFrame

ZoneNext == CallCheckZone

\* checkZone applied to a coordinate and a zone.
ZoneSpec == ZoneInit /\ [][ZoneNext]_vars

\* The targets snapToMesh is applied to, the geometries and the matrixWorld
\* translations.
SnapTargets ==
    { <<0, -20, 0>>, <<12, 0, 16>>, <<-12, 0, 16>>, <<0, 0, 10>>, <<0, -12, 16>>,
      <<0, -16, 12>> }
SnapMeshes == {"scan", "obj", "bare", "dense", "empty"}
SnapMatrices == { IdentityMatrix, <<4, 0, 0>>, <<0, 4, -2>> }

SnapInit ==
    /\ MathInit
    /\ callArgs \in [target : SnapTargets, mesh : SnapMeshes, matrixWorld : SnapMatrices]

\* snapToMesh(target, geometry, matrixWorld) is applied.
CallSnapToMesh ==
    /\ callResult = Null
    /\ callResult' = Some(snapToMesh(callArgs.target, MeshVertices(callArgs.mesh),
                                     MeshNormals(callArgs.mesh), callArgs.matrixWorld))
    /\ UNCHANGED mathFrame

SnapNext == CallSnapToMesh

\* snapToMesh applied to a target, a geometry and a matrixWorld.
SnapSpec == SnapInit /\ [][SnapNext]_vars

\* The point clouds computePointCloudNormals is applied to: the clouds of up
\* to MaxCloud distinct points of CloudPoints, in every order, and the
\* regular grids of up to GridDim x GridDim points in the planes z = 10 and
\* z = -10, row by row.
MaxCloud == 3
GridDim == 3
CloudPoints == { <<0, 0, 10>>, <<12, 0, 16>>, <<0, -12, 16>>, <<-12, -16, 0>> }
SmallClouds ==
    UNION { {c \in [1..n -> CloudPoints] : \A a, b \in 1..n : a # b => c[a] # c[b]} :
            n \in 0..MaxCloud }
GridCloud(cols, rows, spacing, z) ==
    [i \in 1..(cols * rows) |->
        <<spacing * ((i - 1) % cols) - spacing, spacing * ((i - 1) \div cols) - spacing, z>>]
GridClouds ==
    {GridCloud(cols, rows, spacing, z) :
        cols \in 2..GridDim, rows \in 2..GridDim, spacing \in {4, 8}, z \in {10, -10}}

NormalsInit ==
    /\ MathInit
    /\ callArgs \in SmallClouds \cup GridClouds

\* computePointCloudNormals(positions) is applied.
CallComputeNormals ==
    /\ callResult = Null
    /\ callResult' = Some(computePointCloudNormals(callArgs))
    /\ UNCHANGED mathFrame

NormalsNext == CallComputeNormals

\* computePointCloudNormals applied to a point cloud.
NormalsSpec == NormalsInit /\ [][NormalsNext]_vars

\* ------------------------------------------------------ the binding claims
\* The anchor of slot i, and the position the update phase gives slot i for
\* the cloud: the anchor's landmark plus the anchor's offset.
AnchorAt(i) == Get(anchors)[i]
SkinnedPosition(i, cloud) == VecAdd(cloud[AnchorAt(i).landmarkIndex], AnchorAt(i).offset)
\* mats holds, for every instance, its rest matrix moved to the position the
\* anchors give it for the cloud.
SkinnedBy(mats, cloud) ==
    /\ Len(Get(anchors)) = Len(instances)
    /\ DOMAIN mats = 1..Len(instances)
    /\ \A i \in 1..Len(instances) :
          mats[i] = [instances[i].matrix EXCEPT !.position = SkinnedPosition(i, cloud)]
\* cloud is base with every landmark moved by D.
Translated(cloud, base, D) ==
    /\ Len(cloud) = Len(base)
    /\ \A k \in 1..Len(base) : cloud[k] = VecAdd(base[k], D)
\* The translations between two clouds of the detector frames.
Translations ==
    { VecSub(WorldLandmarks(DetectorFrame(h))[1], WorldLandmarks(DetectorFrame(g))[1]) :
        h \in HeadShifts, g \in HeadShifts }

\* C1 (as the claim states it): when a face is detected again after a frame
\* with zero faces in the same AR session, the binding table has been dropped
\* (it is Unbound), so that the next frame runs the bind phase again.
C1_DroppedOnLoss ==
    [][(faceARMode /\ faceARMode' /\ faceLandmarks # Null
        /\ ~faceDetected /\ faceDetected') => anchors' = Null]_vars

\* C2 (as the claim states it): when AR mode is entered, no binding state of
\* an earlier AR session is left: the table is Unbound.
C2_DroppedOnReentry ==
    [][(~faceARMode /\ faceARMode') => anchors' = Null]_vars

\* C3: every regeneration resets the binding, so a bound table always belongs
\* to the current instance set: it has one anchor per instance, and each
\* anchor's base position and offset are those of that instance against the
\* cloud of the bind, so no update applies offsets of an older instance set.
C3_NoStaleOffsets ==
    anchors # Null =>
        /\ bindCloud # Null
        /\ Len(Get(anchors)) = Len(instances)
        /\ \A i \in 1..Len(instances) :
              /\ AnchorAt(i).basePos = instances[i].position
              /\ SkinnedPosition(i, Get(bindCloud)) = instances[i].position

\* C3 witness: in an AR session with a cloud at hand, a table that had been
\* bound is Unbound again after a regeneration of a non-empty instance set.
C3_Witness ==
    /\ faceARMode /\ faceLandmarks # Null
    /\ anchors = Null /\ bindCloud # Null
    /\ Len(instances) > 0

\* C4: once bound, a step either leaves every anchor (landmark index and
\* offset) as it is or drops the whole table; and a table is created only by
\* a bind on the held cloud, which writes no transform.
C4_BindingStable ==
    [][/\ anchors # Null => (anchors' = anchors \/ anchors' = Null)
       /\ (anchors = Null /\ anchors' # Null) =>
              (matrices' = matrices /\ bindCloud' = faceLandmarks)]_vars

\* C4 witness: the update phase has run with a cloud other than the bind
\* cloud, and the table is still the one bound against the bind cloud.
C4_Witness ==
    /\ faceARMode /\ anchors # Null /\ Len(instances) > 0
    /\ faceLandmarks # Null /\ faceLandmarks # bindCloud
    /\ SkinnedBy(matrices, Get(faceLandmarks))
    /\ \A i \in 1..Len(instances) :
          SkinnedPosition(i, Get(bindCloud)) = instances[i].position

\* C5: when the update phase runs on a cloud that is the bind cloud
\* translated by D, it gives every instance its rest position plus D and its
\* rest orientation and scale.
C5_RigidTranslation ==
    [][(anchors # Null /\ anchors' # Null /\ matrices' # matrices
        /\ faceLandmarks # Null /\ bindCloud # Null) =>
          \A D \in Translations :
              Translated(Get(faceLandmarks), Get(bindCloud), D) =>
                  /\ DOMAIN matrices' = 1..Len(instances)
                  /\ \A i \in 1..Len(instances) :
                        matrices'[i] = [instances[i].matrix EXCEPT
                                          !.position = VecAdd(instances[i].position, D)]]_vars

\* C5 witness: a bound, non-empty instance set whose transforms are the rest
\* transforms moved by a translation D other than zero.
C5_Witness ==
    /\ anchors # Null /\ Len(instances) > 0
    /\ faceLandmarks # Null /\ bindCloud # Null
    /\ \E D \in Translations \ {<<0, 0, 0>>} :
          /\ Translated(Get(faceLandmarks), Get(bindCloud), D)
          /\ \A i \in 1..Len(instances) :
                matrices[i] = [instances[i].matrix EXCEPT
                                 !.position = VecAdd(instances[i].position, D)]

\* C6: a bound table holds, for each instance in instance order, the index of
\* a landmark of the bind cloud nearest to the instance's rest position, the
\* lowest such index when several are equally near, and as offset the rest
\* position minus that landmark.
C6_NearestLowestIndex ==
    anchors # Null =>
        /\ Len(Get(anchors)) = Len(instances)
        /\ \A i \in 1..Len(instances) :
              LET p == instances[i].position
                  c == Get(bindCloud)
                  n == AnchorAt(i).landmarkIndex
              IN  /\ n \in 1..Len(c)
                  /\ \A k \in 1..Len(c) :
                        \/ distanceToSquared(p, c[k]) > distanceToSquared(p, c[n])
                        \/ /\ distanceToSquared(p, c[k]) = distanceToSquared(p, c[n])
                           /\ k >= n
                  /\ AnchorAt(i).offset = VecSub(p, c[n])

\* C6 witness: a bound table with an instance that has two nearest landmarks.
C6_Witness ==
    /\ anchors # Null
    /\ \E i \in 1..Len(instances) : \E k \in 1..Len(Get(bindCloud)) :
          /\ k # AnchorAt(i).landmarkIndex
          /\ distanceToSquared(instances[i].position, Get(bindCloud)[k])
               = distanceToSquared(instances[i].position,
                                   Get(bindCloud)[AnchorAt(i).landmarkIndex])

\* C7 (as the claim states it): in an AR session in which no mesh load
\* completes, a bound table is never rebuilt, whether or not an AnimationDef is
\* active: the bind phase ran once and every later frame runs the update phase.
C7_BindOnceAnimated ==
    [][(faceARMode /\ faceARMode' /\ anchors # Null /\ uploadPending' = uploadPending)
          => anchors' = anchors]_vars

\* C7 (amended): the same while no AnimationDef is active: the table stays as
\* bound, and a frame that writes transforms writes those of the update phase
\* for the held cloud.
C7_BindOnce ==
    [][(faceARMode /\ faceARMode' /\ anchors # Null /\ animations = {}
        /\ uploadPending' = uploadPending) =>
          /\ anchors' = anchors
          /\ \/ matrices' = matrices
             \/ faceLandmarks # Null /\ SkinnedBy(matrices', Get(faceLandmarks))]_vars

\* C7 witness: an AR session without animation, a face on the last frame, the
\* table bound against an earlier cloud and the update phase run since.
C7_Witness ==
    /\ faceARMode /\ faceDetected /\ animations = {}
    /\ anchors # Null /\ Len(instances) > 0
    /\ faceLandmarks # bindCloud
    /\ SkinnedBy(matrices, Get(faceLandmarks))

\* C8 (as the claim states it): from the frame on which detection is lost,
\* and while it stays lost, the held cloud stays and every transform stays
\* the one of the last tracked cloud: a step changes no transform, or writes
\* the transforms of the update phase for the held cloud.
C8_HeldWhileLost ==
    [][(faceARMode /\ faceARMode' /\ faceLandmarks # Null /\ ~faceDetected'
        /\ uploadPending' = uploadPending) =>
          /\ faceLandmarks' = faceLandmarks
          /\ \/ matrices' = matrices
             \/ anchors # Null /\ SkinnedBy(matrices', Get(faceLandmarks))]_vars

\* C8 (amended): the same while no AnimationDef is active; moreover every
\* anchor's landmark is in the held cloud, so the update phase cannot fail.
C8_HeldWhileLostStill ==
    [][(faceARMode /\ faceARMode' /\ faceLandmarks # Null /\ ~faceDetected'
        /\ animations = {} /\ uploadPending' = uploadPending) =>
          /\ faceLandmarks' = faceLandmarks
          /\ \/ matrices' = matrices
             \/ anchors # Null /\ SkinnedBy(matrices', Get(faceLandmarks))
          /\ anchors # Null =>
                \A i \in 1..Len(Get(anchors)) :
                    AnchorAt(i).landmarkIndex \in 1..Len(Get(faceLandmarks))]_vars

\* C8 witness: detection is lost in a session without animation, and the
\* transforms are those of the update phase for the held cloud, which is not
\* the bind cloud.
C8_Witness ==
    /\ faceARMode /\ ~faceDetected /\ animations = {}
    /\ faceLandmarks # Null /\ anchors # Null /\ Len(instances) > 0
    /\ faceLandmarks # bindCloud
    /\ SkinnedBy(matrices, Get(faceLandmarks))

\* ---------------------------------------------------- the session claims
\* C9 (as the claim states it): once no FaceScanner is mounted and no promise
\* of one is pending, whatever the exit path was, no camera stream has a live
\* track and no detector is left unreleased.
C9_AllReleased ==
    (~Mounted /\ initPending = "none" /\ cameraPending = "none") =>
        (liveStreams = 0 /\ openDetectors = 0)

\* ------------------------------------------------------- the pose claims
\* The centre of the head of a cloud: where predictWebcam puts the face group
\* for the frame the cloud was computed from.
HeadCentre(cloud) == <<cloud[NoseIdx][1], cloud[NoseIdx][2], TargetZ>>
\* The face group is settled on the head of the held cloud and the update
\* phase has run on that cloud.
Settled ==
    /\ faceARMode /\ faceDetected
    /\ faceLandmarks # Null /\ anchors # Null /\ bindCloud # Null
    /\ groupPosition = HeadCentre(Get(faceLandmarks))
    /\ SkinnedBy(matrices, Get(faceLandmarks))
\* The world position of instance i under the face group (rotation identity,
\* scale 1).
WorldPosition(i) == VecAdd(groupPosition, matrices[i].position)

\* C10 (as the claim states it): the head pose is applied exactly once.  With
\* the head translated by T since the bind frame and the face group settled,
\* every instance is at its world position of the bind frame (the head's
\* centre then, plus its rest position) moved by exactly T.
C10_PoseAppliedOnce ==
    Settled =>
        LET T == VecSub(HeadCentre(Get(faceLandmarks)), HeadCentre(Get(bindCloud)))
        IN  \A i \in 1..Len(instances) :
                WorldPosition(i) =
                    VecAdd(VecAdd(HeadCentre(Get(bindCloud)), instances[i].position), T)

\* ----------------------------------------------------- the placement claims
\* The instance capacity the instancedMesh is allocated with.
Capacity(cfg) == cfg.density * 2

\* A run of the regeneration effect has completed and none is under way.
Regenerated == loopI = -1 /\ golden # Null

\* No candidate coordinate of the completed run lies in the zone.
ZoneRejectsAll ==
    \A k \in 1..Len(samples) :
        ~checkZone(samples[k].uN, samples[k].vN, samples[k].den, renderConfig.zone)

\* C11: after every regeneration the realized instance count is at most
\* density x (2 if symmetry else 1), hence at most the allocated capacity
\* density x 2, and it is 0 when density = 0 or the zone rejects every sample.
C11_CountBounded ==
    Regenerated =>
        /\ meshCount <= renderConfig.density * (IF renderConfig.symmetry THEN 2 ELSE 1)
        /\ renderConfig.density * (IF renderConfig.symmetry THEN 2 ELSE 1)
               <= Capacity(renderConfig)
        /\ meshCount = Len(instances)
        /\ (renderConfig.density = 0 \/ ZoneRejectsAll) => meshCount = 0

\* A regeneration without symmetry that accepted every one of several samples,
\* and so filled its bound.
C11_Witness ==
    /\ Regenerated
    /\ ~renderConfig.symmetry
    /\ renderConfig.density > 1
    /\ meshCount = renderConfig.density

\* A regeneration of a positive density whose zone rejected every sample.
C11_WitnessEmpty ==
    /\ Regenerated
    /\ renderConfig.density > 0
    /\ ZoneRejectsAll
    /\ meshCount = 0

\* C12: with symmetry = true the instances come in consecutive pairs: the
\* instance at (x, y, z) in slot 2k is followed in slot 2k + 1 by an instance
\* at (-x, y, z) with the same scale and the same color (slots counted from 0;
\* the sequence is 1-based), and the realized count is even.
C12_MirroredPairs ==
    renderConfig.symmetry =>
        /\ Len(instances) % 2 = 0
        /\ \A k \in 1..(Len(instances) \div 2) :
              /\ instances[2 * k].position[1] = -instances[2 * k - 1].position[1]
              /\ instances[2 * k].position[2] = instances[2 * k - 1].position[2]
              /\ instances[2 * k].position[3] = instances[2 * k - 1].position[3]
              /\ instances[2 * k].scale = instances[2 * k - 1].scale
              /\ instances[2 * k].color = instances[2 * k - 1].color
        /\ Regenerated =>
              /\ meshCount % 2 = 0
              /\ \A k \in 1..(meshCount \div 2) :
                    anchors = Null =>
                        /\ matrices[2 * k].position = instances[2 * k].position
                        /\ matrices[2 * k - 1].position = instances[2 * k - 1].position
                        /\ matrices[2 * k].scale = matrices[2 * k - 1].scale

\* A completed regeneration with symmetry that placed two pairs off the
\* midline, colored by their normals.
C12_Witness ==
    /\ Regenerated
    /\ renderConfig.symmetry
    /\ renderConfig.colorMode = "normal"
    /\ meshCount >= 4
    /\ instances[1].position[1] # 0
    /\ instances[1].normal[1] # 0
    /\ instances[2].position = MirrorX(instances[1].position)

\* C13: generation is deterministic: every completed regeneration for a
\* config and target mesh yields the InstanceSet of the first one and of a
\* regeneration entered with fresh scratch objects, with the same count and
\* the same position, normal, scale and color at every index, whatever
\* regeneration or AR update ran before it.
C13_Deterministic ==
    Regenerated =>
        /\ Some(instances) = golden
        /\ instances = Generate(renderConfig, customMesh)
        /\ meshCount = Len(Generate(renderConfig, customMesh))

\* A regeneration completed with instances in place, entered with the scratch
\* object as an AR update left it at another scale than the last instance's.
C13_Witness ==
    /\ Regenerated
    /\ skinned
    /\ anchors = Null
    /\ meshCount >= 2
    /\ tempObj.matrix = instances[meshCount].matrix
    /\ instances[1].scale # instances[meshCount].scale

\* C14: for every distribution law, every density and every index i in
\* [0, density), the candidate coordinate (u, v) lies in [-1, 1] x [-1, 1].
C14_SamplesInDomain ==
    \A k \in 1..Len(samples) :
        /\ Abs(samples[k].uN) <= samples[k].den
        /\ Abs(samples[k].vN) <= samples[k].den

\* ----------------------------------------------------- the zone mask claims
\* The zone predicates as specified, for u and v in hundredths: Full is
\* always true; OcularBand is the band 0.1 < v < 0.6, |u| < 0.85 outside both
\* disks of radius 0.15 around (-0.4, 0.35) and (0.4, 0.35); FilterUnit is
\* -0.8 < v < -0.1, |u| < 0.6; Mandible is v < -0.4 or (|u| > 0.7 and v < 0).
InDisk(u, v, cu, cv, r) == (u - cu) * (u - cu) + (v - cv) * (v - cv) < r * r
SpecifiedZone(u, v, zone) ==
    CASE zone = "full" -> TRUE
      [] zone = "domino" -> /\ 10 < v /\ v < 60
                            /\ -85 < u /\ u < 85
                            /\ ~InDisk(u, v, -40, 35, 15)
                            /\ ~InDisk(u, v, 40, 35, 15)
      [] zone = "respirator" -> /\ -80 < v /\ v < -10
                                /\ -60 < u /\ u < 60
      [] zone = "jaw" -> \/ v < -40
                         \/ ((u > 70 \/ u < -70) /\ v < 0)

\* C15: checkZone(u, v, zone) equals the specified predicate for every (u, v)
\* and each of the four zones.
C15_ZoneAsSpecified ==
    callResult # Null =>
        Get(callResult) = SpecifiedZone(callArgs.u, callArgs.v, callArgs.zone)

\* checkZone rejected a coordinate of the ocular band's rectangle that lies
\* in an eye hole, more than 0.12 from the hole's centre.
C15_Witness ==
    /\ callResult = Some(FALSE)
    /\ callArgs.zone = "domino"
    /\ callArgs.v > 10 /\ callArgs.v < 60 /\ callArgs.u > -85 /\ callArgs.u < 85
    /\ ~InDisk(callArgs.u, callArgs.v, -40, 35, 12)
    /\ InDisk(callArgs.u, callArgs.v, -40, 35, 15)

\* The sample s = (uN/den, vN/den) lies within r hundredths of the point
\* (cu, cv), given in hundredths.
SampleNear(s, cu, cv, r) ==
    (100 * s.uN - cu * s.den) * (100 * s.uN - cu * s.den)
        + (100 * s.vN - cv * s.den) * (100 * s.vN - cv * s.den)
      < (r * s.den) * (r * s.den)

\* C16: with zone = OcularBand, for every distribution, density and symmetry
\* setting, no generated instance comes from a parametric sample within
\* distance 0.15 of (-0.4, 0.35) or of (0.4, 0.35).
C16_EyeHolesEmpty ==
    renderConfig.zone = "domino" =>
        \A k \in 1..Len(samples) :
            samples[k].placed =>
                /\ ~SampleNear(samples[k], -40, 35, 15)
                /\ ~SampleNear(samples[k], 40, 35, 15)

\* A completed regeneration of the ocular band that placed an instance and
\* dropped a sample lying in an eye hole, out of reach of the eye cutout.
C16_Witness ==
    /\ Regenerated
    /\ renderConfig.zone = "domino"
    /\ \E k \in 1..Len(samples) : samples[k].placed
    /\ \E k \in 1..Len(samples) :
          /\ ~samples[k].placed
          /\ SampleNear(samples[k], -40, 35, 15) \/ SampleNear(samples[k], 40, 35, 15)
          /\ ~EyeCutout(samples[k].uN, samples[k].vN, samples[k].den)

\* The points of the 10 x 10 lattice: u = -1 + 2 col / 10, v = -1 + 2 row / 10.
Lattice10 ==
    {[uN |-> 2 * col - 10, vN |-> 2 * row - 10, den |-> 10] : col \in 0..9, row \in 0..9}

\* The lattice points within 0.12 of (-0.35, 0.35) or of (0.35, 0.35).
LatticeInEyes ==
    {p \in Lattice10 : SampleNear(p, -35, 35, 12) \/ SampleNear(p, 35, 35, 12)}

\* The iterations of the completed run that visited the lattice point p.
VisitsOf(p) ==
    {k \in 1..Len(samples) :
        samples[k].uN = p.uN /\ samples[k].vN = p.vN /\ samples[k].den = p.den}

\* C17: with density = 100, distribution = Grid, zone = Full, symmetry = false
\* and no target mesh, generation visits each point of the 10 x 10 lattice
\* exactly once, the realized count is 100 minus the number of lattice points
\* within 0.12 of (-0.35, 0.35) or (0.35, 0.35), and the count is the same on
\* every invocation.
C17_GridScenarioCount ==
    (Regenerated /\ renderConfig = GridScenario /\ customMesh = NoMesh) =>
        /\ Len(samples) = 100
        /\ \A p \in Lattice10 : Cardinality(VisitsOf(p)) = 1
        /\ meshCount = 100 - Cardinality(LatticeInEyes)
        /\ meshCount = Len(Get(golden))

\* The scenario regenerated again after a frame tick bound the instances of
\* an earlier run, both eye cutouts having dropped a lattice point.
C17_Witness ==
    /\ Regenerated
    /\ renderConfig = GridScenario
    /\ customMesh = NoMesh
    /\ anchors = Null
    /\ bindCloud # Null
    /\ meshCount = 98
    /\ \E k \in 1..Len(samples) : ~samples[k].placed /\ samples[k].uN < 0
    /\ \E k \in 1..Len(samples) : ~samples[k].placed /\ samples[k].uN > 0

\* ------------------------------------------------------- the snapper claims
\* The stride as specified: floor(max(1, vertexCount / 2000)).
SpecifiedStep(n) == IF n < 2 * 2000 THEN 1 ELSE n \div 2000

\* The sampled vertex indices 0, step, 2 step, ... below n (0-based).
SampledIndices(n) == {j \in 0..(n - 1) : j % SpecifiedStep(n) = 0}

\* The vertex with 0-based index j of the applied geometry, in world space.
WorldVertex(j) ==
    VecAdd(MeshVertices(callArgs.mesh)[j + 1], callArgs.matrixWorld)

\* The sampled vertex nearest to the target, the lowest index on ties.
NearestSampled ==
    CHOOSE j \in SampledIndices(Len(MeshVertices(callArgs.mesh))) :
        \A l \in SampledIndices(Len(MeshVertices(callArgs.mesh))) :
            LET dj == distanceToSquared(callArgs.target, WorldVertex(j))
                dl == distanceToSquared(callArgs.target, WorldVertex(l))
            IN  dj < dl \/ (dj = dl /\ j <= l)

\* n is the vector of unit length (5 in the unit of normals) along t.
UnitAlong(n, t) ==
    \E len \in 0..40 :
        /\ len * len = t[1] * t[1] + t[2] * t[2] + t[3] * t[3]
        /\ VecScale(n, len) = VecScale(t, 5)

\* C18: snapToMesh returns the world-space position of the sampled vertex
\* (indices 0, step, 2 step, ..., step = floor(max(1, vertexCount / 2000)))
\* nearest to the target, the lowest index on ties; for a mesh without
\* vertices it returns the original target with the normalized target
\* direction as normal.
C18_NearestSampledVertex ==
    callResult # Null =>
        IF Len(MeshVertices(callArgs.mesh)) = 0
        THEN /\ Get(callResult).pos = callArgs.target
             /\ UnitAlong(Get(callResult).norm, callArgs.target)
        ELSE Get(callResult).pos = WorldVertex(NearestSampled)

\* snapToMesh applied to a dense geometry whose nearest vertex is not among
\* the sampled ones.
C18_Witness ==
    /\ callResult # Null
    /\ callArgs.mesh = "dense"
    /\ \E j \in 0..5 :
          distanceToSquared(callArgs.target, WorldVertex(j))
              < distanceToSquared(callArgs.target, WorldVertex(NearestSampled))

\* snapToMesh applied to a target with two nearest vertices.
C18_WitnessTie ==
    /\ callResult # Null
    /\ callArgs.mesh = "scan"
    /\ distanceToSquared(callArgs.target, WorldVertex(0))
           = distanceToSquared(callArgs.target, WorldVertex(2))
    /\ NearestSampled = 0

\* snapToMesh applied to a geometry without vertices.
C18_WitnessEmpty ==
    /\ callResult # Null
    /\ callArgs.mesh = "empty"
    /\ Get(callResult).pos = callArgs.target

\* ---------------------------------------------- the normal estimator claims
\* C19 as stated: for a point cloud of 3 or fewer points, every point gets
\* the fallback normal, its own position normalized.
C19_FallbackUpToThree ==
    (callResult # Null /\ Len(callArgs) <= 3) =>
        \A i \in 1..Len(callArgs) : UnitAlong(Get(callResult)[i], callArgs[i])

\* C19, amended: for a point cloud of 2 or fewer points, every point gets the
\* fallback normal, its own position normalized.
C19_FallbackUpToTwo ==
    (callResult # Null /\ Len(callArgs) <= 2) =>
        /\ Len(Get(callResult)) = Len(callArgs)
        /\ \A i \in 1..Len(callArgs) : UnitAlong(Get(callResult)[i], callArgs[i])

\* The estimator applied to a cloud of two points.
C19_Witness ==
    /\ callResult # Null
    /\ Len(callArgs) = 2
    /\ Get(callResult)[1] # Get(callResult)[2]

\* The points of the cloud lie in one plane.
Planar(points) ==
    \A p, q, r, s \in 1..Len(points) :
        dot(crossVectors(VecSub(points[q], points[p]), VecSub(points[r], points[p])),
            VecSub(points[s], points[p])) = 0

\* n has unit length (5 in the unit of normals), up to the rounding of its
\* coordinates.
UnitLength(n) == dot(n, n) >= 11 /\ dot(n, n) <= 27

\* C20: for every planar point set with at least three points the estimator
\* returns one unit normal per point, and all the normals are mutually
\* parallel up to sign.
C20_PlanarNormalsParallel ==
    (callResult # Null /\ Len(callArgs) >= 3 /\ Planar(callArgs)) =>
        /\ Len(Get(callResult)) = Len(callArgs)
        /\ \A i \in 1..Len(callArgs) : UnitLength(Get(callResult)[i])
        /\ \A i, j \in 1..Len(callArgs) :
              crossVectors(Get(callResult)[i], Get(callResult)[j]) = <<0, 0, 0>>

\* ------------------------------------------------------------------- C21
\* The mounted FaceScanner is in the error state of a failed init().
InitFailed == Mounted /\ error = "Neural Engine failure."

\* C21: if the detector's initialization fails (the assets fail to load, or
\* both the GPU and the CPU creation fail), the session ends in an error
\* state in which the camera is never acquired, the prediction loop never
\* runs and neither onFaceUpdate nor onCapture is invoked, and the failure
\* leaves the InstanceSet and an existing binding table unchanged; a GPU
\* failure alone is not an error, the session becomes ready in CPU mode.
C21_InitFailureInert ==
    /\ [][(initPending = "live" /\ (InitSettled("assets") \/ InitSettled("delegates")))
            => InitFailed' /\ UNCHANGED maskVars]_vars
    /\ [](InitFailed => /\ ~loading
                        /\ cameraPending # "live" /\ ~srcObject
                        /\ ~loadeddataListener /\ ~requestRef
                        /\ ~faceDetected /\ faceLandmarks = Null)
    /\ [][InitFailed => UNCHANGED <<maskVars, customMesh, faceLandmarks, liveStreams>>]_vars
    /\ [][(initPending = "live" /\ InitSettled("CPU"))
            => /\ Mounted' /\ ~loading' /\ error' = NoError
               /\ inferenceMode' = "CPU" /\ cameraPending' = "live"]_vars

\* An AR session whose init() failed while MaskInstances holds the binding
\* table of an earlier session.
C21_Witness == InitFailed /\ faceARMode /\ anchors # Null

\* A session that is ready in CPU mode after the GPU creation failed.
C21_WitnessCPU ==
    /\ Mounted /\ ~loading /\ error = NoError
    /\ inferenceMode = "CPU" /\ srcObject

\* ------------------------------------------------------------------- C22
\* C22: running the animation loop never changes the stored base config:
\* after any sequence of animation ticks and animation toggles every field
\* of the base config has the value a control or a preset last set, and only
\* the derived render config varies.
C22_BaseConfigKept == config = lastSet

\* The loop has run on an active animation: the render config differs from
\* the base config in the animated field.
C22_Witness ==
    /\ "offset" \in animations
    /\ loopPending
    /\ renderConfig.offset # config.offset
    /\ [renderConfig EXCEPT !.offset = config.offset] = config

\* ------------------------------------------ predictWebcam's report, applied
\* Largest shift (in image units, either way and along either axis) of the
\* faces of the detector results predictWebcam is applied to.
MaxFaceShift == 1
\* The faces a detector result can hold: the base face shifted in the image.
ResultFaces ==
    { [i \in 1..Len(BaseFace) |-> <<BaseFace[i][1] + hx, BaseFace[i][2] + hy, BaseFace[i][3]>>] :
        hx \in (-MaxFaceShift)..MaxFaceShift, hy \in (-MaxFaceShift)..MaxFaceShift }
\* results.faceLandmarks of detectForVideo: no face, one face or two.
DetectorResults ==
    { <<>> } \cup { <<f>> : f \in ResultFaces } \cup { <<f, g>> : f \in ResultFaces, g \in ResultFaces }

\* predictWebcam without a call of onFaceUpdate (scan mode).
NoReport == [called |-> FALSE, detected |-> FALSE, landmarks |-> Null]

\* Variant of predictWebcam's report that builds worldLandmarks from the last
\* detector landmark down to the first.
onFaceUpdateArgs_Reversed(mode, results) ==
    IF mode # "ar" THEN NoReport
    ELSE IF Len(results) > 0
    THEN LET landmarks == results[1]
         IN  [called |-> TRUE, detected |-> TRUE,
              landmarks |-> Some([i \in 1..Len(landmarks) |->
                                     WorldLandmark(landmarks[Len(landmarks) + 1 - i])])]
    ELSE [called |-> TRUE, detected |-> FALSE, landmarks |-> Null]

\* The AR TRACKING block of predictWebcam on a detector result: the arguments
\* (detected, landmarks) of the onFaceUpdate call it makes.  With a face,
\* landmarks = results.faceLandmarks[0] and worldLandmarks gets one entry per
\* landmark, pushed for i = 0, 1, ...; without one it passes undefined.
onFaceUpdateArgs(mode, results) ==
    IF mode # "ar" THEN NoReport
    ELSE IF Len(results) > 0
    THEN [called |-> TRUE, detected |-> TRUE,
          landmarks |-> Some(WorldLandmarks(results[1]))]
    ELSE [called |-> TRUE, detected |-> FALSE, landmarks |-> Null]

SourceInit ==
    /\ MathInit
    /\ callArgs \in [mode : {"scan", "ar"}, results : DetectorResults]

\* predictWebcam runs on a detector result.
CallPredictWebcam ==
    /\ callResult = Null
    /\ callResult' = Some(onFaceUpdateArgs(callArgs.mode, callArgs.results))
    /\ UNCHANGED mathFrame

SourceNext == CallPredictWebcam

\* predictWebcam's report applied to a mode and a detector result.
SourceSpec == SourceInit /\ [][SourceNext]_vars

\* ------------------------------------------------------------------- C23
\* C23: whenever the landmark source reports detected = true it supplies a
\* non-empty landmark list built in detector index order (entry i is derived
\* from detector landmark i of the first face, in every frame), and whenever
\* the frame has no face it reports detected = false without a landmark list.
C23_ReportInIndexOrder ==
    (callResult # Null /\ Get(callResult).called) =>
        LET report == Get(callResult)
            faces == callArgs.results
        IN  /\ report.detected <=> Len(faces) > 0
            /\ report.detected =>
                  /\ report.landmarks # Null
                  /\ Len(Get(report.landmarks)) > 0
                  /\ Len(Get(report.landmarks)) = Len(faces[1])
                  /\ \A i \in 1..Len(faces[1]) :
                        Get(report.landmarks)[i] = WorldLandmark(faces[1][i])
            /\ ~report.detected => report.landmarks = Null

\* The source reported a face of a frame with two faces.
C23_Witness ==
    /\ callResult # Null
    /\ Get(callResult).detected
    /\ Len(callArgs.results) = 2
    /\ callArgs.results[1] # callArgs.results[2]

\* The source reported a frame without a face.
C23_WitnessNoFace ==
    /\ callResult # Null
    /\ Get(callResult).called
    /\ ~Get(callResult).detected

\* ------------------------------------------------------------------- C24
\* The binding table has one entry per instance, in the order of the list.
TableMatches(table, insts) ==
    /\ Len(table) = Len(insts)
    /\ \A k \in 1..Len(insts) : table[k].basePos = insts[k].position

\* C24 as stated: at every frame tick the InstanceSet is complete: the
\* renderer's instance count equals the length of the stored instance list,
\* slot k holds the rest transform of instance k for every k below the
\* count, and a binding table that exists has exactly one entry per
\* instance, in the same order.
C24_CompleteAtRest ==
    Regenerated =>
        /\ meshCount = Len(instances)
        /\ Len(matrices) = meshCount
        /\ \A k \in 1..meshCount : matrices[k] = instances[k].matrix
        /\ anchors # Null => TableMatches(Get(anchors), instances)

\* C24, amended: at every frame tick the InstanceSet is complete: the
\* renderer's instance count equals the length of the stored instance list,
\* slot k holds the rest transform of instance k for every k below the count
\* while no binding table exists, and otherwise the rest transform or the
\* transform the update phase gives instance k for a delivered cloud, and a
\* binding table that exists has exactly one entry per instance, in the same
\* order.
C24_CompleteRestOrSkinned ==
    Regenerated =>
        /\ meshCount = Len(instances)
        /\ Len(matrices) = meshCount
        /\ \A k \in 1..meshCount :
              \/ matrices[k] = instances[k].matrix
              \/ /\ anchors # Null
                 /\ \E h \in HeadShifts :
                       matrices[k] = UpdateInstance(Get(anchors)[k], instances[k],
                                                    WorldLandmarks(DetectorFrame(h)))
        /\ anchors # Null => TableMatches(Get(anchors), instances)

\* A frame tick after an update phase moved an instance off its rest
\* transform.
C24_Witness ==
    /\ Regenerated
    /\ anchors # Null
    /\ meshCount > 1
    /\ \E k \in 1..meshCount : matrices[k] # instances[k].matrix

\* ------------------------------------------------------------------- C25
\* C25: within one frame tick the bind phase and the update phase never both
\* run: a tick that performs the bind phase writes no instance transform
\* (and leaves the scratch object the update phase writes through alone),
\* and every update-phase tick reads a binding table that was completed in
\* an earlier tick and leaves it as it was.
C25_BindOrUpdate ==
    [][/\ (anchors = Null /\ anchors' # Null) => UNCHANGED <<matrices, tempObj, skinned>>
       /\ (loopI = -1 /\ loopI' = -1 /\ (matrices' # matrices \/ tempObj' # tempObj
                                          \/ skinned' # skinned))
             => /\ anchors # Null
                /\ anchors' = anchors
                /\ \E h \in HeadShifts :
                      matrices' = UpdatePhase(Get(anchors), instances,
                                              WorldLandmarks(DetectorFrame(h)), matrices)]_vars

\* An update phase has run on a table bound in an earlier tick against
\* another cloud, and moved an instance.
C25_Witness ==
    /\ Regenerated
    /\ skinned
    /\ anchors # Null
    /\ \E k \in 1..meshCount : matrices[k].position # instances[k].position

\* ------------------------------------------------------------------- C26
\* A step that ran the bind phase: a binding table appears.
BindTick == anchors = Null /\ anchors' # Null
\* A step that ran the update phase: transforms change under a table that
\* stays (a regeneration drops the table).
UpdateTick == anchors # Null /\ anchors' = anchors /\ matrices' # matrices

\* C26: the bind phase and the update phase never modify the delivered
\* LandmarkCloud snapshot nor the InstanceSet's rest data (position, normal,
\* scale, color and rest matrix of each instance); of the App, the session
\* and MaskInstances they write only the binding table and the renderer's
\* per-instance transforms.
C26_PhasesWriteTableAndSlots ==
    [][(BindTick \/ UpdateTick) =>
          /\ faceLandmarks' = faceLandmarks
          /\ instances' = instances
          /\ meshCount' = meshCount
          /\ BindTick => matrices' = matrices
          /\ UpdateTick => Len(matrices') = Len(matrices)
          /\ UNCHANGED <<designVars, scanning, faceARMode, faceDetected, sessVars,
                         poseVars>>]_vars

\* The update phase has moved the instances off their rest transforms while
\* the cloud it read and the rest data are as they were delivered and
\* generated.
C26_Witness ==
    /\ faceARMode /\ anchors # Null /\ Len(instances) > 0
    /\ faceLandmarks # Null /\ faceLandmarks # bindCloud
    /\ \E h \in HeadShifts : faceLandmarks = Some(WorldLandmarks(DetectorFrame(h)))
    /\ matrices # RestMatrices(instances)
    /\ instances = Generate(renderConfig, customMesh)

\* ------------------------------------------------------------------- C27
\* C27 as stated: MaskInstances always receives the derived render config:
\* while an
\* animation is active on a numeric field, that field's value in the render
\* config is min + n * (max - min) for some n in [0, 1] and all other fields
\* equal the base config; while no animation is active the render config
\* equals the base config.
C27_RenderConfigDerived ==
    IF HasActiveAnim(animations)
    THEN /\ renderConfig.offset >= OffsetSliderMin
         /\ renderConfig.offset <= OffsetSliderMax
         /\ [renderConfig EXCEPT !.offset = config.offset] = config
    ELSE renderConfig = config

\* The render config agrees with the base config outside the animated field.
OthersAsBase(render, base) == [render EXCEPT !.offset = base.offset] = base

\* C27, amended: MaskInstances always receives the derived render config:
\* while an animation is active on a numeric field, that field's value in
\* the render config lies between min and max, every animation frame sets
\* the render config to the base config with that field at min + n * (max -
\* min), and between two frames the other fields differ from the base config
\* only by what was edited since; while no animation is active the render
\* config equals the base config.
C27_DerivedAtEachFrame ==
    /\ [](~HasActiveAnim(animations) => renderConfig = config)
    /\ [](HasActiveAnim(animations) =>
             /\ loopPending
             /\ renderConfig.offset >= OffsetSliderMin
             /\ renderConfig.offset <= OffsetSliderMax)
    /\ [][renderConfig' # renderConfig =>
             IF HasActiveAnim(animations')
             THEN \E k \in 0..NormSteps : renderConfig' = [config' EXCEPT !.offset = AnimValue(k)]
             ELSE renderConfig' = config']_vars
    /\ [][(config' = config /\ OthersAsBase(renderConfig, config))
             => OthersAsBase(renderConfig', config')]_vars

\* An animation frame has run on a base config edited away from the default:
\* the render config has the edited zone and an animated offset.
C27_Witness ==
    /\ HasActiveAnim(animations)
    /\ ~renderIsBase
    /\ config.zone # DEFAULT_CONFIG.zone
    /\ renderConfig.zone = config.zone
    /\ renderConfig.offset # config.offset

\* ---------------------------------------------- MaskInstances.geometry
\* config.shape: the palette of ShapeType and a value outside it.  The shape
\* has no part in the placement, so the model's config does not hold it: the
\* geometry memo is applied to a shape drawn at the start.
ShapeValues == {"box", "sphere", "torus", "cylinder", "cone", "unknown"}
\* What building the parts and merging them can meet: nothing, an exception
\* (of a constructor, of prepare or of mergeGeometries), or mergeGeometries
\* returning null.
MergeOutcomes == {"ok", "throws", "null"}

\* The part geometries the switch pushes for a shape; a value outside the
\* palette takes the default branch, which is the cone's.
OrnamentParts(shape) ==
    CASE shape = "box" -> <<"BoxGeometry", "BoxGeometry", "CylinderGeometry">>
      [] shape = "sphere" -> <<"IcosahedronGeometry", "TorusGeometry", "CylinderGeometry">>
      [] shape = "torus" -> <<"TorusGeometry", "BoxGeometry", "BoxGeometry">>
      [] shape = "cylinder" -> <<"CylinderGeometry", "CylinderGeometry", "CylinderGeometry",
                                 "TorusGeometry">>
      [] OTHER -> <<"ConeGeometry", "CylinderGeometry", "TorusGeometry">>

\* The fallback of the catch block: new THREE.ConeGeometry(0.2, 1, 8).
FallbackGeometry == [kind |-> "fallback", parts |-> <<"ConeGeometry">>]

\* Variant of the geometry memo without the try / catch: the exception
\* leaves the memo (and the render).
geometry_NoCatch(shape, outcome) ==
    IF outcome = "ok"
    THEN IF Len(OrnamentParts(shape)) = 0
         THEN [kind |-> "box", parts |-> <<"BoxGeometry">>]
         ELSE [kind |-> "merged", parts |-> OrnamentParts(shape)]
    ELSE [kind |-> "thrown", parts |-> <<>>]

\* The geometry useMemo for config.shape: the merged parts of the shape, the
\* box when there is no part, and the fallback cone when something threw or
\* the merge returned null.
geometry(shape, outcome) ==
    IF outcome = "ok"
    THEN IF Len(OrnamentParts(shape)) = 0
         THEN [kind |-> "box", parts |-> <<"BoxGeometry">>]
         ELSE [kind |-> "merged", parts |-> OrnamentParts(shape)]
    ELSE FallbackGeometry

GeometryInit ==
    /\ MathInit
    /\ callArgs \in [shape : ShapeValues, outcome : MergeOutcomes]

\* MaskInstances renders for the first time: the geometry memo is computed.
RenderGeometry ==
    /\ callResult = Null
    /\ callResult' = Some(geometry(callArgs.shape, callArgs.outcome))
    /\ UNCHANGED mathFrame

\* The regeneration effect of the mount, which runs once the render has
\* returned: an exception that left the render would unmount the component.
GeometryEffect ==
    /\ callResult # Null
    /\ Get(callResult).kind # "thrown"
    /\ golden = Null
    /\ RegenerateStart

GeometryNext ==
    \/ RenderGeometry
    \/ GeometryEffect
    \/ RegenerateStep
    \/ RegenerateFinish

\* The mount of MaskInstances: the geometry memo, then the regeneration.
GeometrySpec == GeometryInit /\ [][GeometryNext]_vars

\* ------------------------------------------------------------------- C28
\* C28: for every shape value, including a value outside the known palette,
\* the construction of the ornament geometry returns a usable geometry: an
\* exception or a failed merge yields the fallback primitive instead of
\* propagating, and instance generation still runs afterwards (the effect can
\* start once the memo has returned, and no run starts without a geometry).
C28_GeometryUsable ==
    /\ callResult # Null =>
          /\ Get(callResult).kind \in {"merged", "box", "fallback"}
          /\ Len(Get(callResult).parts) > 0
          /\ callArgs.outcome # "ok" => Get(callResult) = FallbackGeometry
          /\ callArgs.outcome = "ok" =>
                /\ Get(callResult).kind = "merged"
                /\ callArgs.shape \notin {"box", "sphere", "torus", "cylinder"} =>
                      Get(callResult).parts = OrnamentParts("cone")
    /\ (callResult # Null /\ golden = Null /\ loopI = -1) => ENABLED GeometryEffect
    /\ (loopI # -1 \/ golden # Null) => callResult # Null
    /\ Regenerated => instances = Generate(renderConfig, customMesh)

\* The instances were generated after a merge that failed on a shape outside
\* the palette.
C28_Witness ==
    /\ callArgs.shape = "unknown"
    /\ callArgs.outcome = "null"
    /\ Regenerated
    /\ Len(instances) > 0

\* ------------------------------------------------------------------- C29
\* C29: for every zone, every distribution and every density, no accepted
\* sample has parametric coordinates within distance 0.12 of either eye
\* centre, (-0.35, 0.35) or (0.35, 0.35), although the caller applies the eye
\* cutout only for the full and the ocular band zones.
C29_EyeCentresClear ==
    \A k \in 1..Len(samples) :
        samples[k].placed =>
            /\ ~SampleNear(samples[k], -35, 35, 12)
            /\ ~SampleNear(samples[k], 35, 35, 12)

\* A completed regeneration of the full zone that placed instances and dropped
\* a candidate within 0.12 of the right eye centre.
C29_Witness ==
    /\ Regenerated
    /\ renderConfig.zone = "full"
    /\ \E k \in 1..Len(samples) : samples[k].placed
    /\ \E k \in 1..Len(samples) :
          ~samples[k].placed /\ SampleNear(samples[k], 35, 35, 12)

\* A completed regeneration of a zone without the eye cutout that placed
\* instances.
C29_WitnessLowerZones ==
    /\ Regenerated
    /\ renderConfig.zone \in {"respirator", "jaw"}
    /\ \E k \in 1..Len(samples) : samples[k].placed
    /\ \E k \in 1..Len(samples) : ~samples[k].placed

\* ------------------------------------------------------------------- C30
\* The part of C30 about the modes alone: at most one of scanning and
\* faceARMode is true, the state of a session (its live promises, its
\* attached stream, its prediction loop) exists only while one of them is,
\* and MaskInstances is handed a cloud only in AR mode.
C30_ModesExclusive ==
    /\ ~(scanning /\ faceARMode)
    /\ ~Mounted => /\ initPending # "live" /\ cameraPending # "live"
                   /\ ~srcObject /\ ~loadeddataListener /\ ~requestRef
    /\ LandmarksProp # Null => faceARMode

\* C30: scan mode and AR mode are mutually exclusive: in every reachable UI
\* state at most one of scanning and faceARMode is true, so at most one
\* FaceScanner session, with one camera and one detector, exists at a time,
\* and MaskInstances receives a LandmarkCloud only while faceARMode is true.
C30_OneSessionAtATime ==
    /\ C30_ModesExclusive
    /\ openDetectors <= 1
    /\ liveStreams <= 1

=============================================================================
